---- MODULE Spec2Model ----
(***************************************************************************)
(* A model of the cybermang combat/exploration core: the dungeon           *)
(* generator (map.py), the Player/Enemy entities with their status         *)
(* effects (player.py, enemy.py, status_effects.py), the combat actions    *)
(* (combat_actions.py) and the turn-based combat loop of Game (game.py).   *)
(*                                                                         *)
(* Each subsystem has its own specification over the shared variables:     *)
(*   SpecMaze    Map.generate_maze(use_rooms=False)                        *)
(*   SpecRooms   Map.generate_maze(use_rooms=True) / Map.generate_rooms    *)
(*   SpecEntity  damage, heal and status-effect operations on entities     *)
(*   SpecCombat  Game's combat mode: commands, enemy turns, rounds         *)
(* A specification leaves the variables of the other subsystems at their   *)
(* idle values.                                                            *)
(***************************************************************************)
EXTENDS Integers, Sequences, FiniteSets, TLC

VARIABLES
    width, height,   \* Map.width, Map.height
    grid,            \* Map.grid: grid[y][x], a cell character
    gen_pc,          \* position inside the generator
    start_idx,       \* index of the next carve seed in start_points
    carve_stack,     \* call stack of carve_passages: frames <<x, y>>
    open_areas,      \* flood_fill_connect's open_areas list
    area_idx,        \* flood_fill_connect's loop index i (1-based here)
    rooms,           \* generate_rooms' rooms list: <<x1, y1, x2, y2>>
    attempts         \* generate_rooms' attempts counter

VARIABLES
    player,          \* Game.player, a Player object
    enemies,         \* Game.enemies, the roster: a list of Enemy objects
    ops              \* history: number of entity operations performed

VARIABLES
    combat_mode,          \* Game.combat_mode
    turn_order,           \* Game.turn_order: ids, 0 is the player
    current_turn_index,   \* Game.current_turn_index (0-based)
    selected_action,      \* Game.selected_action, "None" or an action type
    selected_target,      \* Game.selected_target, None or an enemy id
    valid_targets,        \* Game.valid_targets: enemy ids
    frame_pc,             \* position in Game.run's loop body
    err,                  \* the exception that ended the program, or "none"
    handler_log,          \* history: the calls made by the last handler
    round_log,            \* history: hooks and actions of the open round
    prev_round_log,       \* history: hooks and actions of the last full round
    executed              \* history: per entity, its Defend executions

VARIABLES
    weapons,         \* Game.weapons, a list of Weapon objects
    current_weapon,  \* Game.current_weapon, as its index in Game.weapons
    direction,       \* Game.direction, the direction of the space-bar shot
    clock,           \* time.time(), in ticks
    items,           \* Game.items, a list of HealthPack and AmmoPack objects
    call             \* history: the last recorded call, its arguments and
                     \* the objects it works on as they were before the call

mapVars == <<width, height, grid, gen_pc, start_idx, carve_stack,
             open_areas, area_idx, rooms, attempts>>

entityVars == <<player, enemies, ops>>

combatVars == <<combat_mode, turn_order, current_turn_index, selected_action,
                selected_target, valid_targets, frame_pc, err, handler_log,
                round_log, prev_round_log, executed>>

exploreVars == <<weapons, current_weapon, direction, clock, items, call>>

vars == <<mapVars, entityVars, combatVars, exploreVars>>

\* Python's None where the other values are integers: an object reference
\* (an id) or a weapon (its damage)
None == -1

\* no Player and no roster: the generator runs before Game creates them
EntitiesIdle ==
    /\ player = <<>>
    /\ enemies = <<>>
    /\ ops = 0

\* Game's combat fields as Game.__init__ leaves them
CombatIdle ==
    /\ combat_mode = FALSE
    /\ turn_order = <<>>
    /\ current_turn_index = 0
    /\ selected_action = "None"
    /\ selected_target = None
    /\ valid_targets = <<>>
    /\ frame_pc = "input"
    /\ err = "none"
    /\ handler_log = <<>>
    /\ round_log = <<>>
    /\ prev_round_log = <<>>
    /\ executed = <<>>

\* no call recorded
NoCall == [op |-> "none"]

\* no weapon built, nothing recorded
ExploreIdle ==
    /\ weapons = <<>>
    /\ current_weapon = 0
    /\ direction = "right"
    /\ clock = 0
    /\ items = <<>>
    /\ call = NoCall

\* no map: entity and combat operations do not read the grid
MapIdle ==
    /\ width = 0
    /\ height = 0
    /\ grid = <<>>
    /\ gen_pc = "done"
    /\ start_idx = 0
    /\ carve_stack = <<>>
    /\ open_areas = <<>>
    /\ area_idx = 0
    /\ rooms = <<>>
    /\ attempts = 0

-----------------------------------------------------------------------------
(* Bounds of the model *)

\* maze-mode grid, the smallest on which carving can leave two areas
MazeW == 11
MazeH == 11

\* room-mode grid width: room for three rooms side by side
RoomsW == 14

\* the attempt budget of room placement
MaxAttempts == 3

\* the number of paint draw sequences enumerated
MaxSeed == 3

\* the number of operations of one run of the entity specifications
MaxOps == 3

\* the largest roster that enters combat
MaxEnemies == 2

\* the player's health when combat starts, after the damage of exploration
EntryHealth == 30

\* the arena of the weapon operations: wide enough for a cell out of the
\* range of the Laser Pistol, high enough for the diagonals
ArenaW == 13
ArenaH == 5

\* weapon operations in a row
MaxShots == 2

\* exploration keys in a row
MaxKeys == 2

\* movement calls in a row
MaxMoves == 2

\* the number of calls on the actions of an entity
MaxCasts == 3

-----------------------------------------------------------------------------
(* Small helpers *)

Abs(n) == IF n < 0 THEN -n ELSE n

Min2(a, b) == IF a < b THEN a ELSE b

Max2(a, b) == IF a > b THEN a ELSE b

\* Python's range(a, b)
Range(a, b) == a .. (b - 1)

-----------------------------------------------------------------------------
(* map.py: the grid *)

WALL == "#"

FLOOR == "."

\* [['#' for _ in range(width)] for _ in range(height)]
AllWall(w, h) == [y \in 0 .. (h - 1) |-> [x \in 0 .. (w - 1) |-> WALL]]

InBounds(w, h, x, y) == 0 <= x /\ x < w /\ 0 <= y /\ y < h

\* the guard 0 < x < width - 1 and 0 < y < height - 1
Interior(w, h, x, y) == 0 < x /\ x < w - 1 /\ 0 < y /\ y < h - 1

SetCell(g, x, y, v) == [g EXCEPT ![y][x] = v]

\* g with every cell of the set cs (pairs <<x, y>>) set to v
SetCells(g, cs, v) ==
    [y \in DOMAIN g |-> [x \in DOMAIN g[y] |->
        IF <<x, y>> \in cs THEN v ELSE g[y][x]]]

\* mutation of is_blocked: only the bounds of the grid block
is_blocked_bounds_only(g, w, h, x, y) == ~InBounds(w, h, x, y)

\* Map.is_blocked
is_blocked(g, w, h, x, y) ==
    IF ~InBounds(w, h, x, y) THEN TRUE ELSE g[y][x] = WALL

\* the non-Wall cells of a grid
OpenCells(g, w, h) ==
    {c \in (0 .. (w - 1)) \X (0 .. (h - 1)) : g[c[2]][c[1]] # WALL}

\* the four neighbours visited by visit / collect_area
Neighbours(c) ==
    {<<c[1], c[2] + 1>>, <<c[1] + 1, c[2]>>,
     <<c[1], c[2] - 1>>, <<c[1] - 1, c[2]>>}

\* collect_area: the non-Wall cells reachable from the frontier
RECURSIVE Flood(_, _, _)
Flood(open, frontier, seen) ==
    IF frontier = {} THEN seen
    ELSE LET nxt == {n \in UNION {Neighbours(c) : c \in frontier} :
                        n \in open /\ n \notin seen /\ n \notin frontier}
         IN  Flood(open, nxt, seen \cup frontier)

collect_area(g, w, h, c) == Flood(OpenCells(g, w, h), {c}, {})

\* every non-Wall cell reaches every other one by 4-directional steps
Connected(g, w, h) ==
    LET open == OpenCells(g, w, h)
    IN  open = {} \/ (\E c \in open : Flood(open, {c}, {}) = open)

-----------------------------------------------------------------------------
(* map.py: maze mode, Map.generate_maze(use_rooms=False) *)

\* create_main_path: one walk from cur to the target, axis-stepping
RECURSIVE SpineWalk(_, _, _, _, _, _, _)
SpineWalk(g, w, h, cx, cy, tx, ty) ==
    IF cx = tx /\ cy = ty THEN g
    ELSE LET nx == IF Abs(tx - cx) > Abs(ty - cy)
                   THEN (IF tx > cx THEN cx + 1 ELSE cx - 1) ELSE cx
             ny == IF Abs(tx - cx) > Abs(ty - cy)
                   THEN cy ELSE (IF ty > cy THEN cy + 1 ELSE cy - 1)
             g2 == IF Interior(w, h, nx, ny) THEN SetCell(g, nx, ny, FLOOR)
                   ELSE g
         IN  SpineWalk(g2, w, h, nx, ny, tx, ty)

\* the corners list of create_main_path
Corners(w, h) == <<<<5, 5>>, <<w - 6, 5>>, <<5, h - 6>>, <<w - 6, h - 6>>>>

RECURSIVE SpineFrom(_, _, _, _)
SpineFrom(g, w, h, i) ==
    IF i > 4 THEN g
    ELSE SpineFrom(SpineWalk(g, w, h, w \div 2, h \div 2,
                             Corners(w, h)[i][1], Corners(w, h)[i][2]),
                   w, h, i + 1)

create_main_path(w, h) ==
    SpineFrom(SetCell(AllWall(w, h), w \div 2, h \div 2, FLOOR), w, h, 1)

\* the directions list of carve_passages
Directions == <<<<0, 1>>, <<1, 0>>, <<0, -1>>, <<-1, 0>>>>

\* the cells one carve step opens, from (x, y) in direction d
CarveCells(x, y, d) ==
    LET dx == Directions[d][1]
        dy == Directions[d][2]
    IN  {<<x + dx, y + dy>>, <<x + dx * 2, y + dy * 2>>,
         <<x + dx * 3, y + dy * 3>>}
        \cup (IF Abs(dx) > 0
              THEN {<<x + dx - 1, y + dy>>, <<x + dx + 1, y + dy>>,
                    <<x + dx * 2 - 1, y + dy * 2>>,
                    <<x + dx * 2 + 1, y + dy * 2>>}
              ELSE {<<x + dx, y + dy - 1>>, <<x + dx, y + dy + 1>>,
                    <<x + dx * 2, y + dy * 2 - 1>>,
                    <<x + dx * 2, y + dy * 2 + 1>>})

\* the start_points list
start_points(w, h) ==
    <<<<w \div 2, h \div 2>>, <<w \div 3, h \div 3>>,
      <<(2 * w) \div 3, h \div 3>>, <<w \div 3, (2 * h) \div 3>>,
      <<(2 * w) \div 3, (2 * h) \div 3>>>>

\* the guard of a carve step from (x, y) in direction d
CanCarve(g, w, h, x, y, d) ==
    LET nx == x + Directions[d][1] * 3
        ny == y + Directions[d][2] * 3
    IN  Interior(w, h, nx, ny) /\ g[ny][nx] = WALL

\* one iteration of "for start_x, start_y in start_points"
StartCarve ==
    /\ UNCHANGED <<entityVars, combatVars, exploreVars>>
    /\ gen_pc = "carve"
    /\ carve_stack = <<>>
    /\ start_idx <= 5
    /\ LET s == start_points(width, height)[start_idx]
       IN  IF grid[s[2]][s[1]] = WALL
           THEN /\ grid' = SetCell(grid, s[1], s[2], FLOOR)
                /\ carve_stack' = <<s>>
           ELSE UNCHANGED <<grid, carve_stack>>
    /\ start_idx' = start_idx + 1
    /\ UNCHANGED <<width, height, gen_pc, open_areas, area_idx, rooms,
                   attempts>>

\* the next iteration of "for dx, dy in directions" that carves, in the
\* innermost call of carve_passages.  An iteration whose guard fails changes
\* nothing and a passed target never becomes Wall again, so the shuffled
\* order shows only in which of the directions that can still be carved
\* comes first: any of them.
CarveStep ==
    /\ UNCHANGED <<entityVars, combatVars, exploreVars>>
    /\ gen_pc = "carve"
    /\ carve_stack # <<>>
    /\ LET f == carve_stack[Len(carve_stack)]
       IN  \E d \in 1 .. 4 :
             /\ CanCarve(grid, width, height, f[1], f[2], d)
             /\ grid' = SetCells(grid, CarveCells(f[1], f[2], d), FLOOR)
             /\ carve_stack' =
                   Append(carve_stack, <<f[1] + Directions[d][1] * 3,
                                         f[2] + Directions[d][2] * 3>>)
    /\ UNCHANGED <<width, height, gen_pc, start_idx, open_areas, area_idx,
                   rooms, attempts>>

\* the innermost call of carve_passages has no direction left to carve: its
\* loop ends and it returns
CarveReturn ==
    /\ UNCHANGED <<entityVars, combatVars, exploreVars>>
    /\ gen_pc = "carve"
    /\ carve_stack # <<>>
    /\ LET f == carve_stack[Len(carve_stack)]
       IN  \A d \in 1 .. 4 : ~CanCarve(grid, width, height, f[1], f[2], d)
    /\ carve_stack' = SubSeq(carve_stack, 1, Len(carve_stack) - 1)
    /\ UNCHANGED <<width, height, grid, gen_pc, start_idx, open_areas,
                   area_idx, rooms, attempts>>

\* the order in which flood_fill_connect's scan meets the cells
ScanIndex(c, w) == c[2] * w + c[1]

\* open_areas: the areas in the order the row-major scan of the interior
\* discovers them
RECURSIVE AreasFrom(_, _, _)
AreasFrom(open, remaining, w) ==
    IF remaining = {} THEN <<>>
    ELSE LET c == CHOOSE c \in remaining :
                    \A d \in remaining : ScanIndex(c, w) <= ScanIndex(d, w)
             area == Flood(open, {c}, {})
         IN  <<area>> \o AreasFrom(open, remaining \ area, w)

OpenAreas(g, w, h) ==
    LET open == OpenCells(g, w, h)
    IN  AreasFrom(open, {c \in open : Interior(w, h, c[1], c[2])}, w)

Manhattan(p, q) == Abs(p[1] - q[1]) + Abs(p[2] - q[2])

\* the pairs (p1, p2) the closest-points search can end with: the first pair
\* of least distance in the iteration order of the two sets
ClosestPairs(area1, area2) ==
    {pq \in area1 \X area2 :
        \A rs \in area1 \X area2 :
            Manhattan(pq[1], pq[2]) <= Manhattan(rs[1], rs[2])}

\* "while current != p2": the repair corridor, x first and then y
RECURSIVE RepairWalk(_, _, _, _, _)
RepairWalk(g, w, h, cur, p2) ==
    IF cur = p2 THEN g
    ELSE LET nxt == IF cur[1] < p2[1] THEN <<cur[1] + 1, cur[2]>>
                    ELSE IF cur[1] > p2[1] THEN <<cur[1] - 1, cur[2]>>
                    ELSE IF cur[2] < p2[2] THEN <<cur[1], cur[2] + 1>>
                    ELSE <<cur[1], cur[2] - 1>>
             g2 == IF Interior(w, h, nxt[1], nxt[2])
                   THEN SetCell(g, nxt[1], nxt[2], FLOOR) ELSE g
         IN  RepairWalk(g2, w, h, nxt, p2)

\* mutant: the repair corridor is never carved
ConnectAreas_skipped(g, w, h, pq) == g

\* the repair of one pair of consecutive areas
ConnectAreas(g, w, h, pq) == RepairWalk(g, w, h, pq[1], pq[2])

\* flood_fill_connect up to the end of the scan: open_areas is collected
FloodFillCollect ==
    /\ UNCHANGED <<entityVars, combatVars, exploreVars>>
    /\ gen_pc = "carve"
    /\ carve_stack = <<>>
    /\ start_idx > 5
    /\ open_areas' = OpenAreas(grid, width, height)
    /\ area_idx' = 1
    /\ gen_pc' = "connect"
    /\ UNCHANGED <<width, height, grid, start_idx, carve_stack, rooms,
                   attempts>>

\* one iteration of "for i in range(len(open_areas) - 1)"
ConnectStep ==
    /\ UNCHANGED <<entityVars, combatVars, exploreVars>>
    /\ gen_pc = "connect"
    /\ area_idx <= Len(open_areas) - 1
    /\ \E pq \in ClosestPairs(open_areas[area_idx], open_areas[area_idx + 1]) :
          grid' = ConnectAreas(grid, width, height, pq)
    /\ area_idx' = area_idx + 1
    /\ UNCHANGED <<width, height, gen_pc, start_idx, carve_stack, open_areas,
                   rooms, attempts>>

-----------------------------------------------------------------------------
(* map.py: the terrain paint pass, shared by both modes *)

\* random.random() in hundredths: one value at the lower edge of each band
DrawValues == <<0, 8, 23, 48, 83, 95, 98, 99>>

\* mutation of the chain: its last branch is missing
TerrainFor_no_spikes(r) ==
    IF r < 8 THEN "W"
    ELSE IF r < 23 THEN "T"
    ELSE IF r < 48 THEN "R"
    ELSE IF r < 83 THEN "H"
    ELSE IF r < 95 THEN "A"
    ELSE IF r < 98 THEN "P"
    ELSE IF r < 99 THEN "L"
    ELSE FLOOR

\* the if/elif chain over rand_val
TerrainFor(r) ==
    IF r < 8 THEN "W"
    ELSE IF r < 23 THEN "T"
    ELSE IF r < 48 THEN "R"
    ELSE IF r < 83 THEN "H"
    ELSE IF r < 95 THEN "A"
    ELSE IF r < 98 THEN "P"
    ELSE IF r < 99 THEN "L"
    ELSE IF r < 100 THEN "S"
    ELSE FLOOR

\* the draw for cell (x, y) in the draw sequence numbered seed: consecutive
\* cells get consecutive bands, so every band is drawn in every pass
DrawAt(seed, x, y, w) == DrawValues[((seed - 1 + y * w + x) % 8) + 1]

\* the paint loop over every cell: only '.' cells are drawn for
Paint(g, w, h, seed) ==
    [y \in 0 .. (h - 1) |-> [x \in 0 .. (w - 1) |->
        IF g[y][x] = FLOOR THEN TerrainFor(DrawAt(seed, x, y, w))
        ELSE g[y][x]]]

\* the draw sequences enumerated
Seeds == 1 .. MaxSeed

\* the end of generate_maze: the repair loop is over, paint and return
PaintMaze ==
    /\ UNCHANGED <<entityVars, combatVars, exploreVars>>
    /\ gen_pc = "connect"
    /\ area_idx > Len(open_areas) - 1
    /\ \E seed \in Seeds : grid' = Paint(grid, width, height, seed)
    /\ gen_pc' = "done"
    /\ UNCHANGED <<width, height, start_idx, carve_stack, open_areas,
                   area_idx, rooms, attempts>>

-----------------------------------------------------------------------------
(* map.py: room mode, Map.generate_maze(use_rooms=True) *)

\* max_attempts of generate_rooms (100 in the source), scaled to the model
max_attempts == MaxAttempts

\* the room count generate_rooms aims at
target_rooms == 5

\* random.randint(4, 8) and random.randint(4, 6)
RoomWidths == 4 .. 8

RoomHeights == 4 .. 6

\* room-mode grid height: the lowest grid on which randint(1, height -
\* room_height - 1) has a value for every room height
RoomsH == 6 + 2

\* mutation of room_overlap: only a room whose first corner lies in the
\* other one overlaps it
room_overlap_corner(r1, r2) ==
    r2[1] <= r1[1] /\ r1[1] < r2[3] /\ r2[2] <= r1[2] /\ r1[2] < r2[4]

\* Map.room_overlap, rooms as <<x1, y1, x2, y2>>
room_overlap(r1, r2) ==
    ~(r1[3] <= r2[1] \/ r2[3] <= r1[1] \/ r1[4] <= r2[2] \/ r2[4] <= r1[2])

\* Map.create_room: clear the rectangle, then put its border back to Wall
create_room(g, w, h, r) ==
    LET x1 == r[1]
        y1 == r[2]
        x2 == r[3]
        y2 == r[4]
        cleared == {c \in Range(x1, x2) \X Range(y1, y2) :
                        Interior(w, h, c[1], c[2])}
        rowWalls == IF 0 < y1 /\ y1 < h - 1
                    THEN {<<x, y1>> : x \in Range(x1, x2)}
                         \cup {<<x, y2 - 1>> : x \in Range(x1, x2)}
                    ELSE {}
        colWalls == IF 0 < x1 /\ x1 < w - 1
                    THEN {<<x1, y>> : y \in Range(y1, y2)}
                         \cup {<<x2 - 1, y>> : y \in Range(y1, y2)}
                    ELSE {}
    IN  SetCells(SetCells(g, cleared, FLOOR), rowWalls \cup colWalls, WALL)

\* mutant: only the horizontal segment of the corridor is carved
connect_rooms_horizontal(g, w, h, r1, r2) ==
    LET cx1 == (r1[1] + r1[3]) \div 2
        cy1 == (r1[2] + r1[4]) \div 2
        cx2 == (r2[1] + r2[3]) \div 2
    IN  SetCells(g, {<<x, cy1>> : x \in Min2(cx1, cx2) .. Max2(cx1, cx2)},
                 FLOOR)

\* Map.connect_rooms: horizontal along room1's centre row, then vertical
\* along room2's centre column
connect_rooms(g, w, h, r1, r2) ==
    LET cx1 == (r1[1] + r1[3]) \div 2
        cy1 == (r1[2] + r1[4]) \div 2
        cx2 == (r2[1] + r2[3]) \div 2
        cy2 == (r2[2] + r2[4]) \div 2
        horiz == {<<x, cy1>> : x \in {x \in Min2(cx1, cx2) .. Max2(cx1, cx2) :
                                         0 < x /\ x < w - 1 /\ 0 < cy1
                                         /\ cy1 < h - 1}}
        vert == {<<cx2, y>> : y \in {y \in Min2(cy1, cy2) .. Max2(cy1, cy2) :
                                        0 < cx2 /\ cx2 < w - 1 /\ 0 < y
                                        /\ y < h - 1}}
    IN  SetCells(g, horiz \cup vert, FLOOR)

\* "for i in range(len(rooms) - 1): connect_rooms(rooms[i], rooms[i + 1])"
RECURSIVE ConnectAllRooms(_, _, _, _, _)
ConnectAllRooms(g, w, h, rs, i) ==
    IF i > Len(rs) - 1 THEN g
    ELSE ConnectAllRooms(connect_rooms(g, w, h, rs[i], rs[i + 1]),
                         w, h, rs, i + 1)

\* the rooms the four randint draws of one attempt can give
Candidates(w, h) ==
    UNION {{<<x, y, x + rw, y + rh>> :
                x \in 1 .. (w - rw - 1), y \in 1 .. (h - rh - 1)} :
           rw \in RoomWidths, rh \in RoomHeights}

\* "any(self.room_overlap(new_room, existing) for existing in rooms)"
OverlapsAny(new_room, rs) ==
    \E i \in 1 .. Len(rs) : room_overlap(new_room, rs[i])

\* one iteration of the placement loop of generate_rooms: the drawn room
\* overlaps a placed one and is dropped, or it is placed
PlaceRoomAttempt ==
    /\ UNCHANGED <<entityVars, combatVars, exploreVars>>
    /\ gen_pc = "rooms"
    /\ Len(rooms) < target_rooms
    /\ attempts < max_attempts
    /\ \/ /\ {c \in Candidates(width, height) : OverlapsAny(c, rooms)} # {}
          /\ UNCHANGED <<rooms, grid>>
       \/ \E new_room \in Candidates(width, height) :
             /\ ~OverlapsAny(new_room, rooms)
             /\ rooms' = Append(rooms, new_room)
             /\ grid' = create_room(grid, width, height, new_room)
    /\ attempts' = attempts + 1
    /\ UNCHANGED <<width, height, gen_pc, start_idx, carve_stack, open_areas,
                   area_idx>>

\* the rest of generate_rooms once the placement loop is over: the
\* corridors, the paint pass, and the return of the grid
FinishRooms ==
    /\ UNCHANGED <<entityVars, combatVars, exploreVars>>
    /\ gen_pc = "rooms"
    /\ ~(Len(rooms) < target_rooms /\ attempts < max_attempts)
    /\ LET corridors == ConnectAllRooms(grid, width, height, rooms, 1)
       IN  \E seed \in Seeds : grid' = Paint(corridors, width, height, seed)
    /\ gen_pc' = "done"
    /\ UNCHANGED <<width, height, start_idx, carve_stack, open_areas,
                   area_idx, rooms, attempts>>

InitRooms ==
    /\ EntitiesIdle
    /\ CombatIdle
    /\ ExploreIdle
    /\ width = RoomsW
    /\ height = RoomsH
    /\ grid = AllWall(RoomsW, RoomsH)
    /\ gen_pc = "rooms"
    /\ start_idx = 0
    /\ carve_stack = <<>>
    /\ open_areas = <<>>
    /\ area_idx = 0
    /\ rooms = <<>>
    /\ attempts = 0

NextRooms ==
    \/ PlaceRoomAttempt
    \/ FinishRooms

SpecRooms == InitRooms /\ [][NextRooms]_vars

\* C2: every grid returned by room-mode generation is connected, for every
\* number of rooms placed and every placement
C2_RoomsConnected ==
    gen_pc = "done" => Connected(grid, width, height)

\* a returned dungeon of three rooms, the last two with centres on
\* different rows and columns
C2_Witness ==
    /\ gen_pc = "done"
    /\ Len(rooms) = 3
    /\ (rooms[2][1] + rooms[2][3]) \div 2 # (rooms[3][1] + rooms[3][3]) \div 2
    /\ (rooms[2][2] + rooms[2][4]) \div 2 # (rooms[3][2] + rooms[3][4]) \div 2
    /\ Connected(grid, width, height)

InitMaze ==
    /\ EntitiesIdle
    /\ CombatIdle
    /\ ExploreIdle
    /\ width = MazeW
    /\ height = MazeH
    /\ grid = create_main_path(MazeW, MazeH)
    /\ gen_pc = "carve"
    /\ start_idx = 1
    /\ carve_stack = <<>>
    /\ open_areas = <<>>
    /\ area_idx = 0
    /\ rooms = <<>>
    /\ attempts = 0

NextMaze ==
    \/ StartCarve
    \/ CarveStep
    \/ CarveReturn
    \/ FloodFillCollect
    \/ ConnectStep
    \/ PaintMaze

SpecMaze == InitMaze /\ [][NextMaze]_vars

\* C1: every grid returned by maze-mode generation is connected: each
\* non-Wall cell reaches every other non-Wall cell by 4-directional steps
\* through non-Wall cells, whatever the random choices were
C1_MazeConnected ==
    gen_pc = "done" => Connected(grid, width, height)

\* a returned maze whose carving had left more than one area
C1_Witness ==
    /\ gen_pc = "done"
    /\ Len(open_areas) > 1
    /\ Connected(grid, width, height)

-----------------------------------------------------------------------------
(* Status effects (status_effects.py) *)

\* StatusEffect.duration and .intensity are floats: held in hundredths
Unit == 100

\* the values random.uniform(0.5, 1.0) is drawn from, in hundredths
UniformDraws == {50, 75, 100}

\* the names stack_effect treats as duration-based
DurationClass == {"Paralysis", "Blindness", "Confusion", "Haste", "Slow"}

\* the names stack_effect treats as intensity-based
IntensityClass ==
    {"Poison", "Regeneration", "Strength", "Weakness", "Protection"}

\* StatusEffect.__init__(name, duration, intensity)
StatusEffect(name, duration, intensity) ==
    [name |-> name,
     base_duration |-> duration,
     duration |-> duration,
     intensity |-> intensity,
     max_intensity |-> intensity * 3,
     max_duration |-> duration * 2]

\* the subclass constructors, arguments in whole units
PoisonEffect(duration, intensity) ==
    StatusEffect("Poison", duration * Unit, intensity * Unit)

ParalysisEffect(duration) == StatusEffect("Paralysis", duration * Unit, Unit)

BlindnessEffect(duration) == StatusEffect("Blindness", duration * Unit, Unit)

ConfusionEffect(duration) == StatusEffect("Confusion", duration * Unit, Unit)

HasteEffect(duration) == StatusEffect("Haste", duration * Unit, Unit)

SlowEffect(duration) == StatusEffect("Slow", duration * Unit, Unit)

RegenerationEffect(duration, intensity) ==
    StatusEffect("Regeneration", duration * Unit, intensity * Unit)

StrengthEffect(duration, intensity) ==
    StatusEffect("Strength", duration * Unit, intensity * Unit)

WeaknessEffect(duration, intensity) ==
    StatusEffect("Weakness", duration * Unit, intensity * Unit)

ProtectionEffect(duration, intensity) ==
    StatusEffect("Protection", duration * Unit, intensity * Unit)

\* mutation of stack_effect: the caps are dropped
stack_effect_uncapped(new, existing, draw) ==
    IF new.name \in {"Paralysis", "Blindness", "Confusion", "Haste", "Slow"}
    THEN [existing EXCEPT
            !.duration = existing.duration
                         + (new.base_duration * draw) \div 100]
    ELSE [existing EXCEPT
            !.intensity = existing.intensity + (new.intensity * draw) \div 100,
            !.duration = existing.duration + new.base_duration]

\* new.stack_effect(existing): the existing instance after the call;
\* draw is the value of random.uniform(0.5, 1.0)
stack_effect(new, existing, draw) ==
    IF new.name \in DurationClass
    THEN [existing EXCEPT
            !.duration = Min2(existing.duration
                              + (new.base_duration * draw) \div Unit,
                              existing.max_duration)]
    ELSE IF new.name \in IntensityClass
    THEN [existing EXCEPT
            !.intensity = Min2(existing.intensity
                               + (new.intensity * draw) \div Unit,
                               existing.max_intensity),
            !.duration = Max2(existing.duration, new.base_duration)]
    ELSE existing

\* the entity attribute an effect class sets in apply_effect and clears in
\* remove_effect; Poison and Regeneration set none
FlagOf(name) ==
    CASE name = "Paralysis" -> "paralyzed"
      [] name = "Blindness" -> "blinded"
      [] name = "Confusion" -> "confused"
      [] name = "Haste" -> "hasted"
      [] name = "Slow" -> "slowed"
      [] name = "Strength" -> "strengthened"
      [] name = "Weakness" -> "weakened"
      [] name = "Protection" -> "protected"
      [] OTHER -> "none"

\* effect.apply_effect(entity)
apply_effect(e, effect) ==
    IF FlagOf(effect.name) = "none" THEN e
    ELSE [e EXCEPT ![FlagOf(effect.name)] = TRUE]

\* mutation of remove_effect: the attribute is left as it is
remove_effect_flag_kept(e, effect) == e

\* effect.remove_effect(entity)
remove_effect(e, effect) ==
    IF FlagOf(effect.name) = "none" THEN e
    ELSE [e EXCEPT ![FlagOf(effect.name)] = FALSE]

-----------------------------------------------------------------------------
(* Combat actions as objects (combat_actions.py) *)

\* CombatAction.__init__: current_cooldown starts at 0
CombatAction(name, arg, mana_cost, cooldown) ==
    [name |-> name, arg |-> arg, mana_cost |-> mana_cost,
     cooldown |-> cooldown, current_cooldown |-> 0]

AttackAction == CombatAction("Attack", "", 0, 0)

DefendAction == CombatAction("Defend", "", 0, 3)

UseItemAction(item_type) ==
    CASE item_type = "health_potion" ->
            CombatAction("Use Health Potion", item_type, 0, 0)
      [] item_type = "mana_potion" ->
            CombatAction("Use Mana Potion", item_type, 0, 0)
      [] item_type = "antidote" ->
            CombatAction("Use Antidote", item_type, 0, 0)

CastSpellAction(spell_name) ==
    CASE spell_name = "fireball" -> CombatAction("Fireball", spell_name, 15, 2)
      [] spell_name = "heal" -> CombatAction("Heal", spell_name, 10, 1)
      [] spell_name = "paralyze" -> CombatAction("Paralyze", spell_name, 20, 3)

-----------------------------------------------------------------------------
(* Entities (player.py, enemy.py) *)

\* hasattr(entity, attr): an object is a record of its attributes
HasAttr(e, attr) == attr \in DOMAIN e

\* Player.__init__(x, y, health); created_health is a history field, the
\* health the object was created with
Player(health) ==
    [class |-> "Player",
     id |-> 0,
     health |-> health,
     max_health |-> health,
     created_health |-> health,
     status_effects |-> <<>>,
     paralyzed |-> FALSE, blinded |-> FALSE, confused |-> FALSE,
     hasted |-> FALSE, slowed |-> FALSE, strengthened |-> FALSE,
     weakened |-> FALSE, protected |-> FALSE,
     mana |-> 50, max_mana |-> 50, mana_regeneration |-> 5,
     actions |-> <<AttackAction, DefendAction, UseItemAction("health_potion"),
                   CastSpellAction("fireball"), CastSpellAction("heal")>>,
     weapon |-> None]

\* the health each Enemy class passes to Enemy.__init__
EnemyHealth(class) ==
    CASE class = "Enemy" -> 50
      [] class = "FastEnemy" -> 30
      [] class = "TankEnemy" -> 150
      [] class = "SniperEnemy" -> 40
      [] class = "HealerEnemy" -> 50
      [] class = "StealthEnemy" -> 35

\* the actions list each Enemy class builds
EnemyActions(class) ==
    IF class = "TankEnemy" THEN <<AttackAction, DefendAction>>
    ELSE <<AttackAction>>

\* Enemy.__init__ and the subclass constructors: no max_health, no mana and
\* no weapon attribute; id is the object's identity
Enemy(class, id) ==
    [class |-> class,
     id |-> id,
     health |-> EnemyHealth(class),
     created_health |-> EnemyHealth(class),
     status_effects |-> <<>>,
     paralyzed |-> FALSE, blinded |-> FALSE, confused |-> FALSE,
     hasted |-> FALSE, slowed |-> FALSE, strengthened |-> FALSE,
     weakened |-> FALSE, protected |-> FALSE,
     actions |-> EnemyActions(class)]

\* the damages below 400 at which the double product damage * 0.7 lies just
\* under the exact value, so that int() drops one more
FloatShort07 == {90, 170, 180, 330, 340, 350, 360}

\* mutation of ReducedDamage: the product rounded to the nearest integer
ReducedDamage_rounded(damage) == (damage * 7 + 5) \div 10

\* int(damage * 0.7), for 0 <= damage < 400
ReducedDamage(damage) ==
    (damage * 7) \div 10 - (IF damage \in FloatShort07 THEN 1 ELSE 0)

\* Player.take_damage: the health is clamped at 0
Player_take_damage(e, damage, ignore_protection) ==
    LET dealt == IF e.protected /\ ~ignore_protection
                 THEN ReducedDamage(damage) ELSE damage
        left == e.health - dealt
    IN  [e EXCEPT !.health = IF left < 0 THEN 0 ELSE left]

\* Enemy.take_damage: no clamp
Enemy_take_damage(e, damage, ignore_protection) ==
    LET dealt == IF e.protected /\ ~ignore_protection
                 THEN ReducedDamage(damage) ELSE damage
    IN  [e EXCEPT !.health = e.health - dealt]

\* entity.take_damage(damage, ignore_protection), dispatched on the class
take_damage(e, damage, ignore_protection) ==
    IF e.class = "Player"
    THEN Player_take_damage(e, damage, ignore_protection)
    ELSE Enemy_take_damage(e, damage, ignore_protection)

\* index of the first effect named name in the list, 0 if there is none
FindEffect(effects, name) ==
    LET hits == {i \in 1 .. Len(effects) : effects[i].name = name}
    IN  IF hits = {} THEN 0
        ELSE CHOOSE i \in hits : \A j \in hits : i <= j

\* entity.has_status_effect(name)
has_status_effect(e, name) == FindEffect(e.status_effects, name) # 0

\* the list without its element at index i
RemoveAt(seq, i) ==
    [j \in 1 .. (Len(seq) - 1) |-> IF j < i THEN seq[j] ELSE seq[j + 1]]

\* mutation of apply_status_effect: the new effect is always appended
apply_status_effect_append(e, effect, draw) ==
    apply_effect([e EXCEPT !.status_effects = Append(@, effect)], effect)

\* Player.apply_status_effect / Enemy.apply_status_effect (the same code):
\* stack into the first effect of that name, else append and apply_effect
apply_status_effect(e, effect, draw) ==
    LET i == FindEffect(e.status_effects, effect.name)
    IN  IF i # 0
        THEN [e EXCEPT !.status_effects[i] = stack_effect(effect, @, draw)]
        ELSE apply_effect([e EXCEPT !.status_effects = Append(@, effect)],
                          effect)

\* remove_status_effect(effect_name): the first effect of that name goes
remove_status_effect(e, effect_name) ==
    LET i == FindEffect(e.status_effects, effect_name)
    IN  IF i = 0 THEN e
        ELSE [remove_effect(e, e.status_effects[i])
                 EXCEPT !.status_effects = RemoveAt(@, i)]

\* remove_effect of every effect of the list, in order
RECURSIVE RemoveEffects(_, _, _)
RemoveEffects(e, effects, i) ==
    IF i > Len(effects) THEN e
    ELSE RemoveEffects(remove_effect(e, effects[i]), effects, i + 1)

\* clear_all_status_effects()
clear_all_status_effects(e) ==
    [RemoveEffects(e, e.status_effects, 1) EXCEPT !.status_effects = <<>>]

\* mutation of on_turn_end: the duration is decremented twice
effect_on_turn_end_twice(effect) == [effect EXCEPT !.duration = @ - 2 * Unit]

\* StatusEffect.on_turn_end: the effect after the decrement
effect_on_turn_end(effect) == [effect EXCEPT !.duration = @ - Unit]

\* update_status_effects(): every effect's on_turn_end, the expired ones
\* removed with remove_effect
update_status_effects(e) ==
    LET ticked == [i \in 1 .. Len(e.status_effects) |->
                      effect_on_turn_end(e.status_effects[i])]
        expired == SelectSeq(ticked, LAMBDA f : f.duration <= 0)
        kept == SelectSeq(ticked, LAMBDA f : f.duration > 0)
    IN  [RemoveEffects(e, expired, 1) EXCEPT !.status_effects = kept]

\* entity.on_turn_end()
on_turn_end(e) == update_status_effects(e)

\* effect.on_turn_start(entity): the poison tick, the regeneration tick
effect_on_turn_start(e, effect) ==
    IF effect.name = "Poison"
    THEN take_damage(e, (5 * effect.intensity) \div Unit, TRUE)
    ELSE IF effect.name = "Regeneration"
    THEN LET healing == (3 * effect.intensity) \div Unit
             cap == IF HasAttr(e, "max_health") THEN e.max_health
                    ELSE e.health
         IN  [e EXCEPT !.health = Min2(cap, e.health + healing)]
    ELSE e

\* the loop over self.status_effects of on_turn_start
RECURSIVE EffectsTurnStart(_, _)
EffectsTurnStart(e, i) ==
    IF i > Len(e.status_effects) THEN e
    ELSE EffectsTurnStart(effect_on_turn_start(e, e.status_effects[i]), i + 1)

\* Player.on_turn_start (mana regeneration first) / Enemy.on_turn_start
on_turn_start(e) ==
    IF e.class = "Player"
    THEN EffectsTurnStart(
             [e EXCEPT !.mana = Min2(e.max_mana, e.mana + e.mana_regeneration)],
             1)
    ELSE EffectsTurnStart(e, 1)

-----------------------------------------------------------------------------
(* Heals outside combat actions *)

\* Player.move onto a health pickup 'H'
collect_health(p) == [p EXCEPT !.health = Min2(p.max_health, p.health + 20)]

\* Player.move onto a power-up 'P'
collect_powerup(p) == [p EXCEPT !.health = Min2(p.max_health, p.health + 10)]

\* check_item_pickup on a HealthPack (heal_amount 25): capped at 100
pickup_health_pack(p) == [p EXCEPT !.health = Min2(100, p.health + 25)]

\* the body of the loop of HealerEnemy._try_heal_allies for one ally within
\* heal_range
heal_ally(ally) ==
    IF ally.health < 50
    THEN [ally EXCEPT !.health = Min2(ally.health + 20, 100)]
    ELSE ally

\* HealerEnemy._try_heal_allies(all_enemies) by the healer at roster index
\* h, every other enemy being within heal_range
try_heal_allies(roster, h) ==
    [i \in 1 .. Len(roster) |->
        IF i # h THEN heal_ally(roster[i]) ELSE roster[i]]

-----------------------------------------------------------------------------
(* Executing combat actions (combat_actions.py) *)

\* the objects an action touches: the player, the roster, and the exception
\* raised, if any
World(p, roster) == [player |-> p, enemies |-> roster, err |-> "none"]

\* roster index of the enemy with identity id, 0 if it is not in the roster
RosterIndex(roster, id) ==
    LET hits == {i \in 1 .. Len(roster) : roster[i].id = id}
    IN  IF hits = {} THEN 0 ELSE CHOOSE i \in hits : TRUE

\* the object with identity id
Get(w, id) ==
    IF id = 0 THEN w.player ELSE w.enemies[RosterIndex(w.enemies, id)]

\* the world after the object with identity id became e
Put(w, id, e) ==
    IF id = 0 THEN [w EXCEPT !.player = e]
    ELSE [w EXCEPT !.enemies[RosterIndex(w.enemies, id)] = e]

Raise(w, exception) == [w EXCEPT !.err = exception]

\* mutation of can_execute: the mana of the entity is not looked at
can_execute_any_mana(action, entity) == ~(action.current_cooldown > 0)

\* CombatAction.can_execute(entity)
can_execute(action, entity) ==
    /\ ~(HasAttr(entity, "mana") /\ entity.mana < action.mana_cost)
    /\ ~(action.current_cooldown > 0)

\* the Strength and Weakness modifiers of AttackAction: int(damage * (1 +
\* 0.1 * intensity)), then int(damage * (1 - 0.1 * intensity))
ModifiedDamage(entity, damage) ==
    LET s == FindEffect(entity.status_effects, "Strength")
        k == FindEffect(entity.status_effects, "Weakness")
        d1 == IF s = 0 THEN damage
              ELSE (damage * (10 * Unit + entity.status_effects[s].intensity))
                   \div (10 * Unit)
    IN  IF k = 0 THEN d1
        ELSE (d1 * (10 * Unit - entity.status_effects[k].intensity))
             \div (10 * Unit)

\* AttackAction._perform_action(entity, target): an entity with a weapon
\* attribute reads entity.weapon, an Enemy deals the base damage 10
Attack_perform(w, eid, tid) ==
    LET entity == Get(w, eid)
    IN  IF HasAttr(entity, "weapon")
        THEN IF entity.weapon = None \/ tid = None
             THEN Raise(w, "AttributeError")
             ELSE Put(w, tid,
                      take_damage(Get(w, tid),
                                  ModifiedDamage(entity, entity.weapon),
                                  FALSE))
        ELSE IF tid # None
             THEN Put(w, tid,
                      take_damage(Get(w, tid), ModifiedDamage(entity, 10),
                                  FALSE))
             ELSE w

\* DefendAction._perform_action: ProtectionEffect(duration=2, intensity=2.0)
\* on the entity itself
Defend_perform(w, eid, draw) ==
    Put(w, eid, apply_status_effect(Get(w, eid), ProtectionEffect(2, 2), draw))

\* UseItemAction._perform_action
UseItem_perform(w, item_type, eid) ==
    LET entity == Get(w, eid)
    IN  CASE item_type = "health_potion" ->
                IF HasAttr(entity, "max_health")
                THEN Put(w, eid, [entity EXCEPT
                        !.health = Min2(entity.max_health, entity.health + 30)])
                ELSE Raise(w, "AttributeError")
          [] item_type = "mana_potion" ->
                IF HasAttr(entity, "mana") /\ HasAttr(entity, "max_mana")
                THEN Put(w, eid, [entity EXCEPT
                        !.mana = Min2(entity.max_mana, entity.mana + 20)])
                ELSE w
          [] item_type = "antidote" ->
                Put(w, eid, remove_status_effect(entity, "Poison"))

\* CastSpellAction._perform_action
CastSpell_perform(w, spell_name, eid, tid, draw) ==
    LET entity == Get(w, eid)
    IN  CASE spell_name = "fireball" ->
                IF tid # None
                THEN Put(w, tid, take_damage(Get(w, tid), 25, FALSE))
                ELSE w
          [] spell_name = "heal" ->
                IF tid # None
                THEN LET target == Get(w, tid)
                         cap == IF HasAttr(target, "max_health")
                                THEN target.max_health ELSE target.health
                     IN  Put(w, tid, [target EXCEPT
                                !.health = Min2(cap, target.health + 30)])
                ELSE IF HasAttr(entity, "max_health")
                THEN Put(w, eid, [entity EXCEPT
                        !.health = Min2(entity.max_health, entity.health + 30)])
                ELSE Raise(w, "AttributeError")
          [] spell_name = "paralyze" ->
                IF tid # None
                THEN Put(w, tid, apply_status_effect(Get(w, tid),
                                                     ParalysisEffect(2), draw))
                ELSE w

\* action._perform_action(entity, target, game_state), by class
perform_action(w, action, eid, tid, draw) ==
    CASE action.name = "Attack" -> Attack_perform(w, eid, tid)
      [] action.name = "Defend" -> Defend_perform(w, eid, draw)
      [] action.name \in {"Use Health Potion", "Use Mana Potion",
                          "Use Antidote"} ->
            UseItem_perform(w, action.arg, eid)
      [] OTHER -> CastSpell_perform(w, action.arg, eid, tid, draw)

\* CombatAction.execute(entity, target): pay the mana, start the cooldown of
\* this action object, perform. slot is the object's index in
\* entity.actions, 0 for an object that is in no list
execute(w, action, slot, eid, tid, draw) ==
    LET e0 == Get(w, eid)
        e1 == IF HasAttr(e0, "mana")
              THEN [e0 EXCEPT !.mana = @ - action.mana_cost] ELSE e0
        e2 == IF slot # 0
              THEN [e1 EXCEPT !.actions[slot].current_cooldown = action.cooldown]
              ELSE e1
    IN  perform_action(Put(w, eid, e2), action, eid, tid, draw)

\* CombatAction.update_cooldown
update_cooldown(action) ==
    IF action.current_cooldown > 0
    THEN [action EXCEPT !.current_cooldown = @ - 1]
    ELSE action

-----------------------------------------------------------------------------
(* SpecEntity: damage and heal operations on a Player and an Enemy *)

\* the current objects as a world
Now == World(player, enemies)

\* an operation's result becomes the state
Commit(w) ==
    /\ w.err = "none"
    /\ player' = w.player
    /\ enemies' = w.enemies
    /\ ops' = ops + 1
    /\ UNCHANGED <<mapVars, combatVars, exploreVars>>

\* the damages dealt: an enemy's hit, lava or a shotgun pellet, the rail gun
DamageValues == {10, 15, 45}

\* the effects that act on health
HealthEffects ==
    {PoisonEffect(3, 2), RegenerationEffect(3, 1), ProtectionEffect(2, 2)}

\* the classes of the enemy operated on
SubjectClasses == {"Enemy", "FastEnemy", "TankEnemy"}

\* the objects operated on: the player and the first enemy
Subjects == {0, 1}

\* entity.take_damage(damage, ignore_protection)
TakeDamage ==
    /\ ops < MaxOps
    /\ \E t \in Subjects, damage \in DamageValues, ignore_protection \in BOOLEAN :
          Commit(Put(Now, t,
                     take_damage(Get(Now, t), damage, ignore_protection)))

\* entity.apply_status_effect(effect); the draw matters when it stacks
ApplyHealthEffect ==
    /\ ops < MaxOps
    /\ \E t \in Subjects, effect \in HealthEffects :
          IF has_status_effect(Get(Now, t), effect.name)
          THEN \E draw \in UniformDraws :
                  Commit(Put(Now, t,
                             apply_status_effect(Get(Now, t), effect, draw)))
          ELSE Commit(Put(Now, t,
                          apply_status_effect(Get(Now, t), effect, Unit)))

\* entity.on_turn_start()
TurnStart ==
    /\ ops < MaxOps
    /\ \E t \in Subjects : Commit(Put(Now, t, on_turn_start(Get(Now, t))))

\* entity.on_turn_end()
TurnEnd ==
    /\ ops < MaxOps
    /\ \E t \in Subjects : Commit(Put(Now, t, on_turn_end(Get(Now, t))))

\* the player steps on a health pickup 'H'
CollectHealth ==
    /\ ops < MaxOps
    /\ Commit(Put(Now, 0, collect_health(player)))

\* the player steps on a power-up 'P'
CollectPowerUp ==
    /\ ops < MaxOps
    /\ Commit(Put(Now, 0, collect_powerup(player)))

\* the player steps on a HealthPack item
PickupHealthPack ==
    /\ ops < MaxOps
    /\ Commit(Put(Now, 0, pickup_health_pack(player)))

\* the player executes its UseItemAction("health_potion")
Potion ==
    /\ ops < MaxOps
    /\ can_execute(player.actions[3], player)
    /\ Commit(execute(Now, player.actions[3], 3, 0, None, Unit))

\* the player executes its CastSpellAction("heal"), on itself or on the enemy
HealSpell ==
    /\ ops < MaxOps
    /\ can_execute(player.actions[5], player)
    /\ \E tid \in {None, 1} :
          Commit(execute(Now, player.actions[5], 5, 0, tid, Unit))

\* the HealerEnemy of the roster heals its allies
AllyHeal ==
    /\ ops < MaxOps
    /\ \E h \in 1 .. Len(enemies) :
          /\ enemies[h].class = "HealerEnemy"
          /\ Commit([Now EXCEPT !.enemies = try_heal_allies(enemies, h)])

InitEntity ==
    /\ MapIdle
    /\ CombatIdle
    /\ ExploreIdle
    /\ player = Player(100)
    /\ \E class \in SubjectClasses :
          enemies = <<Enemy(class, 1), Enemy("HealerEnemy", 2)>>
    /\ ops = 0

NextEntity ==
    \/ TakeDamage
    \/ ApplyHealthEffect
    \/ TurnStart
    \/ TurnEnd
    \/ CollectHealth
    \/ CollectPowerUp
    \/ PickupHealthPack
    \/ Potion
    \/ HealSpell
    \/ AllyHeal

SpecEntity == InitEntity /\ [][NextEntity]_vars

\* every Player and Enemy object
Entities == {player} \cup {enemies[i] : i \in 1 .. Len(enemies)}

\* C3: after any sequence of damage and heal operations the health of the
\* Player and of every Enemy is within [0, max_health], max_health being the
\* health the entity was created with
C3_HealthInRange ==
    \A e \in Entities : 0 <= e.health /\ e.health <= e.created_health

\* C33: the health of an enemy of the roster that is 0 or less is never
\* above 0 afterwards, whatever heals: the ally heal of a HealerEnemy, a
\* Regeneration tick, a Heal spell
C33_DefeatedStaysDefeated ==
    [][\A i \in 1 .. Len(enemies) :
          (enemies[i].health <= 0 /\ RosterIndex(enemies', enemies[i].id) # 0)
              => enemies'[RosterIndex(enemies', enemies[i].id)].health <= 0
      ]_vars

-----------------------------------------------------------------------------
(* SpecEffects: the status-effect list of one entity *)

\* the effect constructor calls of the sources: the class defaults, the
\* Protection of DefendAction, the Paralysis of the paralyze spell, and the
\* effects the test scripts build
EffectCatalog ==
    {PoisonEffect(3, 1), PoisonEffect(3, 2), ParalysisEffect(1),
     ParalysisEffect(2), BlindnessEffect(2), ConfusionEffect(2),
     HasteEffect(3), SlowEffect(3), RegenerationEffect(3, 1),
     StrengthEffect(2, 1), WeaknessEffect(2, 1), ProtectionEffect(2, 1),
     ProtectionEffect(2, 2)}

\* the object operated on: the enemy if the roster holds one, else the player
Subject == IF enemies = <<>> THEN 0 ELSE 1

\* entity.apply_status_effect(effect): a first application or a
\* re-application
EffApply ==
    /\ ops < MaxOps
    /\ \E effect \in EffectCatalog :
          IF has_status_effect(Get(Now, Subject), effect.name)
          THEN \E draw \in UniformDraws :
                  Commit(Put(Now, Subject,
                             apply_status_effect(Get(Now, Subject), effect,
                                                 draw)))
          ELSE Commit(Put(Now, Subject,
                          apply_status_effect(Get(Now, Subject), effect, Unit)))

\* the names of the effects of a list
NamesOf(effects) == {effects[i].name : i \in 1 .. Len(effects)}

\* entity.remove_status_effect(effect_name), for the active names and for
\* one name that may not be active
EffRemove ==
    /\ ops < MaxOps
    /\ \E effect_name \in NamesOf(Get(Now, Subject).status_effects)
                            \cup {"Poison"} :
          Commit(Put(Now, Subject,
                     remove_status_effect(Get(Now, Subject), effect_name)))

\* entity.clear_all_status_effects()
EffClear ==
    /\ ops < MaxOps
    /\ Commit(Put(Now, Subject, clear_all_status_effects(Get(Now, Subject))))

\* entity.on_turn_end()
EffTurnEnd ==
    /\ ops < MaxOps
    /\ Commit(Put(Now, Subject, on_turn_end(Get(Now, Subject))))

InitEffects ==
    /\ MapIdle
    /\ CombatIdle
    /\ ExploreIdle
    /\ player = Player(100)
    /\ enemies \in {<<>>, <<Enemy("Enemy", 1)>>}
    /\ ops = 0

NextEffects ==
    \/ EffApply
    \/ EffRemove
    \/ EffClear
    \/ EffTurnEnd

SpecEffects == InitEffects /\ [][NextEffects]_vars

\* no two effects of the list have the same name
UniqueNames(effects) ==
    \A i, j \in 1 .. Len(effects) :
        effects[i].name = effects[j].name => i = j

\* the list grew by at most one effect, appended, under a name that was
\* not active
AppendsNewName(old, new) ==
    /\ Len(new) <= Len(old) + 1
    /\ Len(new) = Len(old) + 1 =>
          /\ \A i \in 1 .. Len(old) : new[i].name = old[i].name
          /\ FindEffect(old, new[Len(new)].name) = 0

\* C9: after any sequence of apply, re-apply, remove-by-name, clear-all and
\* turn-end operations the status-effect list of the Player and of the Enemy
\* holds at most one effect per name, and an operation lengthens the list
\* only by appending one instance of a name that was not active
C9_OneEffectPerName ==
    /\ [](\A e \in Entities : UniqueNames(e.status_effects))
    /\ [][AppendsNewName(Get(Now, Subject).status_effects,
                         Get(World(player', enemies'), Subject).status_effects)
         ]_vars

\* an effect that was stacked into, in a list of two effects, after a third
\* application
C9_Witness ==
    /\ ops = 3
    /\ \E e \in Entities :
          /\ Len(e.status_effects) = 2
          /\ \E i \in 1 .. 2 :
                e.status_effects[i].intensity * 3
                    > e.status_effects[i].max_intensity

\* C10: the stored intensity of an intensity-class effect never exceeds 3
\* times the intensity of its first application and its stored duration
\* never exceeds 2 times the first application's base duration, however
\* often the effect is re-applied; the stored duration of a duration-class
\* effect never exceeds 2 times its base duration
C10_StackingCaps ==
    \A e \in Entities :
        \A i \in 1 .. Len(e.status_effects) :
            LET f == e.status_effects[i]
            IN  /\ f.name \in IntensityClass =>
                      /\ f.intensity <= f.max_intensity
                      /\ f.duration <= 2 * f.base_duration
                /\ f.name \in DurationClass =>
                      f.duration <= 2 * f.base_duration

\* after three operations, an intensity-class effect alone in the list,
\* stacked up to its intensity cap with its duration still at its base
C10_Witness ==
    /\ ops = 3
    /\ \E e \in Entities :
          /\ Len(e.status_effects) = 1
          /\ e.status_effects[1].name \in IntensityClass
          /\ e.status_effects[1].intensity = e.status_effects[1].max_intensity
          /\ e.status_effects[1].duration = e.status_effects[1].base_duration

\* the names of the effect classes that set an attribute of the entity
FlagNames ==
    {"Paralysis", "Blindness", "Confusion", "Haste", "Slow", "Strength",
     "Weakness", "Protection"}

\* C28: after any sequence of apply, stack, remove-by-name, clear-all and
\* turn-end operations, each of the attributes paralyzed, blinded, confused,
\* hasted, slowed, strengthened, weakened, protected of the Player and of
\* the Enemy is true exactly when the status-effect list holds an effect of
\* the corresponding name
C28_FlagsMirrorEffects ==
    \A e \in Entities :
        \A name \in FlagNames :
            e[FlagOf(name)] <=> (name \in NamesOf(e.status_effects))

\* after three operations, a turn end among them: a Protection that has
\* outlived a turn end is alone in the list, its attribute set and the
\* attribute of Paralysis clear
C28_Witness ==
    /\ ops = 3
    /\ \E e \in Entities :
          /\ Len(e.status_effects) = 1
          /\ e.status_effects[1].name = "Protection"
          /\ e.status_effects[1].duration < e.status_effects[1].base_duration
          /\ e.protected
          /\ ~e.paralyzed

-----------------------------------------------------------------------------
(* Game's combat mode (game.py). A handler works on g, the Game object with
   its player and roster; the fields handler_log, round_log, prev_round_log
   and executed are history. *)

\* a call recorded in the history of the handler only
Log(g, kind, id) == [g EXCEPT !.handler_log = Append(@, <<kind, id>>)]

\* a hook or an action execution, recorded for the handler and the round
Event(g, kind, id) ==
    [g EXCEPT !.handler_log = Append(@, <<kind, id>>),
              !.round_log = Append(@, <<kind, id>>)]

\* Game.exit_combat
exit_combat(g) ==
    [g EXCEPT !.combat_mode = FALSE, !.turn_order = <<>>,
              !.current_turn_index = 0]

\* Game.check_combat_end: the roster is empty, or the player is defeated
check_combat_end(g) ==
    LET g1 == Log(g, "check_combat_end", None)
    IN  IF g1.enemies = <<>> THEN exit_combat(g1)
        ELSE IF g1.player.health <= 0 THEN exit_combat(g1)
        ELSE g1

\* Game.build_turn_order: the player, then the roster in its order
build_turn_order(g) ==
    [g EXCEPT !.turn_order =
        <<0>> \o [i \in 1 .. Len(g.enemies) |-> g.enemies[i].id]]

\* Game.enter_combat; the histories start empty
enter_combat(g) ==
    [build_turn_order([g EXCEPT !.combat_mode = TRUE])
        EXCEPT !.current_turn_index = 0,
               !.round_log = <<>>,
               !.prev_round_log = <<>>,
               !.executed = [id \in {0} \cup {g.enemies[i].id :
                                              i \in 1 .. Len(g.enemies)} |->
                                [since |-> None, gap |-> None]]]

\* the loop of new_round from position i of the turn order: on_turn_end
\* then on_turn_start of each entity
RECURSIVE RoundHooks(_, _)
RoundHooks(g, i) ==
    IF i > Len(g.turn_order) THEN g
    ELSE LET id == g.turn_order[i]
             g1 == Event(Put(g, id, on_turn_end(Get(g, id))), "on_turn_end", id)
             g2 == Event(Put(g1, id, on_turn_start(Get(g1, id))),
                         "on_turn_start", id)
         IN  RoundHooks(g2, i + 1)

\* mutation of new_round: the hooks are not run
new_round_no_hooks(g) ==
    LET g1 == check_combat_end(g)
    IN  [g1 EXCEPT !.prev_round_log = g1.round_log, !.round_log = <<>>]

\* Game.new_round: the hooks of every entity of the turn order, then the
\* combat-end check; the round's history is closed
new_round(g) ==
    LET g1 == check_combat_end(RoundHooks(g, 1))
    IN  [g1 EXCEPT !.prev_round_log = g1.round_log, !.round_log = <<>>]

\* the cooldown updates of next_turn for the entity id, whose turn ends
EndOfTurn(g, id) ==
    LET e == Get(g, id)
        e1 == [e EXCEPT !.actions =
                  [k \in 1 .. Len(e.actions) |-> update_cooldown(e.actions[k])]]
        was == g.executed[id]
    IN  [Put(g, id, e1) EXCEPT !.executed[id].since =
            IF was.since = None THEN None
            ELSE Min2(was.since + 1, DefendAction.cooldown)]

\* Game.next_turn: cooldowns of the current entity, the index moves on
\* modulo the length of the turn order, a wrap to 0 starts a new round
next_turn(g) ==
    LET g1 == IF g.current_turn_index < Len(g.turn_order)
              THEN EndOfTurn(g, g.turn_order[g.current_turn_index + 1])
              ELSE g
    IN  IF Len(g1.turn_order) = 0 THEN Raise(g1, "ZeroDivisionError")
        ELSE LET g2 == [g1 EXCEPT !.current_turn_index =
                           (g1.current_turn_index + 1) % Len(g1.turn_order)]
             IN  IF g2.current_turn_index = 0
                 THEN new_round(Log(g2, "new_round", None))
                 ELSE g2

\* an entity executed an action: the history of its Defend executions
Executed(g, id, action) ==
    LET g1 == Event(g, "action", id)
    IN  IF g.err # "none" THEN g
        ELSE IF action.name = "Defend"
        THEN [g1 EXCEPT !.executed[id] =
                 [since |-> 0, gap |-> g.executed[id].since]]
        ELSE g1

\* the indices of the actions of an entity that can_execute
AvailableActions(e) ==
    {k \in 1 .. Len(e.actions) : can_execute(e.actions[k], e)}

\* Game.handle_enemy_turn(enemy): pick is the index random.choice takes
\* among the available actions
handle_enemy_turn(g, id, pick, draw) ==
    LET g1 == Event(Put(g, id, on_turn_start(Get(g, id))), "on_turn_start", id)
        enemy == Get(g1, id)
        g2 == IF enemy.actions # <<>>
                 /\ \E i \in 1 .. Len(g1.turn_order) : g1.turn_order[i] = 0
                 /\ pick \in AvailableActions(enemy)
              THEN LET action == enemy.actions[pick]
                       target == IF action.name = "Attack" THEN 0 ELSE None
                   IN  Executed(execute(g1, action, pick, id, target, draw),
                                id, action)
              ELSE g1
        g3 == Event(Put(g2, id, on_turn_end(Get(g2, id))), "on_turn_end", id)
    IN  check_combat_end(g3)

\* Game.update_combat: an enemy's turn is played and the turn moves on; on
\* the player's turn nothing happens
update_combat(g, pick, draw) ==
    IF g.current_turn_index < Len(g.turn_order)
    THEN LET current == g.turn_order[g.current_turn_index + 1]
         IN  IF current = 0 THEN g
             ELSE LET g1 == handle_enemy_turn(g, current, pick, draw)
                  IN  IF g1.err # "none" THEN g1 ELSE next_turn(g1)
    ELSE g

\* Game.highlight_targets: the roster is copied
highlight_targets(g) ==
    [g EXCEPT !.valid_targets =
        [i \in 1 .. Len(g.enemies) |-> g.enemies[i].id]]

\* Game.select_combat_action(action_type)
select_combat_action(g, action_type) ==
    highlight_targets([g EXCEPT !.selected_action = action_type])

\* Game.select_target(dx, dy): the first valid target, whatever the direction
select_target(g) ==
    IF g.valid_targets # <<>>
    THEN [g EXCEPT !.selected_target = g.valid_targets[1]]
    ELSE g

\* Game.cancel_combat_action
cancel_combat_action(g) ==
    [g EXCEPT !.selected_action = "None", !.selected_target = None,
              !.valid_targets = <<>>]

\* the tail of execute_combat_action once the action ran: the turn moves
\* on and the selection is cleared
AfterExecute(g) ==
    LET g1 == next_turn(g)
    IN  IF g1.err # "none" THEN g1
        ELSE [g1 EXCEPT !.selected_action = "None", !.selected_target = None]

\* Game.execute_combat_action: a new AttackAction or DefendAction object is
\* built for the selected type; for any other type the name action is not
\* bound when it is read
execute_combat_action(g, draw) ==
    IF g.selected_action # "None" /\ g.selected_target # None
    THEN LET current == g.turn_order[g.current_turn_index + 1]
         IN  IF g.selected_action \notin {"attack", "defend"}
             THEN Raise(g, "UnboundLocalError")
             ELSE LET action == IF g.selected_action = "attack"
                                THEN AttackAction ELSE DefendAction
                  IN  IF can_execute(action, Get(g, current))
                      THEN LET g1 == Executed(execute(g, action, 0, current,
                                                      g.selected_target, draw),
                                              current, action)
                           IN  IF g1.err # "none" THEN g1
                               ELSE AfterExecute(g1)
                      ELSE g
    ELSE g

\* Game.handle_combat_input(key): the keys a, d, i, s always select an
\* action type; w, space and escape act only once a type is selected
handle_combat_input(g, key, draw) ==
    IF key = "a" THEN select_combat_action(g, "attack")
    ELSE IF key = "d" THEN select_combat_action(g, "defend")
    ELSE IF key = "i" THEN select_combat_action(g, "item")
    ELSE IF key = "s" THEN select_combat_action(g, "spell")
    ELSE IF g.selected_action # "None"
    THEN IF key = "w" THEN select_target(g)
         ELSE IF key = " " THEN execute_combat_action(g, draw)
         ELSE IF key = "esc" THEN cancel_combat_action(g)
         ELSE g
    ELSE g

-----------------------------------------------------------------------------
(* SpecCombat: the frames of Game.run from the frame that starts combat *)

\* the damage of the MockWeapon the test scripts give the player
MockWeapon == 15

\* the classes of the enemies of the roster
CombatClasses == {"Enemy", "FastEnemy", "TankEnemy"}

\* the Game object at the start of a handler
Game ==
    [player |-> player, enemies |-> enemies, err |-> err,
     combat_mode |-> combat_mode, turn_order |-> turn_order,
     current_turn_index |-> current_turn_index,
     selected_action |-> selected_action,
     selected_target |-> selected_target,
     valid_targets |-> valid_targets,
     handler_log |-> <<>>, round_log |-> round_log,
     prev_round_log |-> prev_round_log, executed |-> executed]

\* the Game object after a handler becomes the state; pc is the next
\* position in the loop of Game.run
Return(g, pc) ==
    /\ player' = g.player
    /\ enemies' = g.enemies
    /\ err' = g.err
    /\ combat_mode' = g.combat_mode
    /\ turn_order' = g.turn_order
    /\ current_turn_index' = g.current_turn_index
    /\ selected_action' = g.selected_action
    /\ selected_target' = g.selected_target
    /\ valid_targets' = g.valid_targets
    /\ handler_log' = g.handler_log
    /\ round_log' = g.round_log
    /\ prev_round_log' = g.prev_round_log
    /\ executed' = g.executed
    /\ frame_pc' = pc
    /\ UNCHANGED <<mapVars, ops, exploreVars>>

\* the draws that can matter to a Defend of entity e
DrawsFor(e) ==
    IF has_status_effect(e, "Protection") THEN UniformDraws ELSE {Unit}

\* getch returns no key: handle_input changes nothing
NoKey ==
    /\ err = "none"
    /\ frame_pc = "input"
    /\ Return(handle_combat_input(Game, "none", Unit), "update")

\* a, d, i or s: an action type is selected
KeySelectAction ==
    /\ err = "none"
    /\ frame_pc = "input"
    /\ combat_mode
    /\ \E key \in {"a", "d", "i", "s"} :
          Return(handle_combat_input(Game, key, Unit), "update")

\* w: a target is selected
KeySelectTarget ==
    /\ err = "none"
    /\ frame_pc = "input"
    /\ combat_mode
    /\ Return(handle_combat_input(Game, "w", Unit), "update")

\* space: the selection is confirmed
KeyConfirm ==
    /\ err = "none"
    /\ frame_pc = "input"
    /\ combat_mode
    /\ \E draw \in DrawsFor(Get(Game, turn_order[current_turn_index + 1])) :
          Return(handle_combat_input(Game, " ", draw), "update")

\* escape: the selection is cancelled
KeyCancel ==
    /\ err = "none"
    /\ frame_pc = "input"
    /\ combat_mode
    /\ Return(handle_combat_input(Game, "esc", Unit), "update")

\* Game.update in exploration, an enemy standing next to the player:
\* check_combat_start is true and combat is entered
EnterCombat ==
    /\ err = "none"
    /\ frame_pc = "update"
    /\ ~combat_mode
    /\ enemies # <<>>
    /\ player.health > 0
    /\ Return(enter_combat(Game), "input")

\* Game.update in combat; the loop of Game.run ends once the player's
\* health is 0
UpdateCombat ==
    /\ err = "none"
    /\ frame_pc = "update"
    /\ combat_mode
    /\ LET current == turn_order[current_turn_index + 1]
           picks == IF current = 0 \/ AvailableActions(Get(Game, current)) = {}
                    THEN {0}
                    ELSE AvailableActions(Get(Game, current))
       IN  \E pick \in picks, draw \in DrawsFor(Get(Game, current)) :
              LET g == update_combat(Game, pick, draw)
              IN  Return(g, IF g.player.health <= 0 THEN "over" ELSE "input")

InitCombat ==
    /\ MapIdle
    /\ CombatIdle
    /\ ExploreIdle
    /\ ops = 0
    /\ \E weapon \in {None, MockWeapon} :
          player = [Player(100) EXCEPT !.health = EntryHealth,
                                         !.weapon = weapon]
    /\ \E n \in 1 .. MaxEnemies :
          \E classes \in [1 .. n -> CombatClasses] :
              enemies = [i \in 1 .. n |-> Enemy(classes[i], i)]

NextCombat ==
    \/ NoKey
    \/ KeySelectAction
    \/ KeySelectTarget
    \/ KeyConfirm
    \/ KeyCancel
    \/ EnterCombat
    \/ UpdateCombat

SpecCombat == InitCombat /\ [][NextCombat]_vars

\* the entities that entered the current or the last combat
Participants == DOMAIN executed

\* the last handler ran a combat-end check
Checked ==
    \E i \in 1 .. Len(handler_log) :
        handler_log[i] = <<"check_combat_end", None>>

\* the enemy with this identity is gone from the roster or has no health left
Defeated(id) ==
    RosterIndex(enemies, id) # 0 => Get(Game, id).health <= 0

\* C4: in combat with a single enemy, once that enemy's health is 0 or
\* below, a combat-end check leaves the game in exploration with the enemy
\* out of the roster; and after any combat-end check the game is in combat
\* exactly when the roster is not empty and the player's health is above 0
C4_CombatEndsOnDefeat ==
    /\ (Participants = {0, 1} /\ Checked /\ Defeated(1)) =>
          (~combat_mode /\ RosterIndex(enemies, 1) = 0)
    /\ (Participants # {} /\ Checked) =>
          (combat_mode <=> (enemies # <<>> /\ player.health > 0))

\* C31: in combat the turn index is within the turn order, the turn is
\* never advanced over an empty turn order, and the frame in which an
\* enemy's action brings the player's health to 0 ends in exploration
\* without an error
C31_TurnIndexInRange ==
    /\ combat_mode =>
          0 <= current_turn_index /\ current_turn_index < Len(turn_order)
    /\ err # "ZeroDivisionError"
    /\ (Participants # {} /\ player.health <= 0 /\ frame_pc = "over") =>
          (err = "none" /\ ~combat_mode)

\* C5: with the Player as the game constructs it (no weapon), no command of
\* the combat command surface ends in an exception
C5_CommandsComplete ==
    (player # <<>> /\ player.weapon = None /\ frame_pc = "update") =>
        err = "none"

\* the calls a round boundary makes for the turn order: the marker of
\* new_round, then on_turn_end and on_turn_start of each entity in order,
\* then the combat-end check
RECURSIVE BoundaryCalls(_, _)
BoundaryCalls(order, i) ==
    IF i > Len(order) THEN <<<<"check_combat_end", None>>>>
    ELSE <<<<"on_turn_end", order[i]>>, <<"on_turn_start", order[i]>>>>
         \o BoundaryCalls(order, i + 1)

\* the log ends with the calls of a round boundary
EndsWithBoundary(log, order) ==
    LET calls == <<<<"new_round", None>>>> \o BoundaryCalls(order, 1)
    IN  /\ Len(log) >= Len(calls)
        /\ SubSeq(log, Len(log) - Len(calls) + 1, Len(log)) = calls

\* the entities that executed an action in the handler, in order
Actors(log) ==
    LET acts == SelectSeq(log, LAMBDA ev : ev[1] = "action")
    IN  [i \in 1 .. Len(acts) |-> acts[i][2]]

\* C6: in combat the turn order is the player followed by the enemies in
\* roster order; a handler lets only the entity whose turn it is act and
\* moves the turn to the next position, cyclically; and each time the turn
\* wraps back to the player the round boundary runs on_turn_end then
\* on_turn_start of every participant, then a combat-end check
C6_TurnOrder ==
    /\ [](combat_mode =>
             turn_order = <<0>> \o [i \in 1 .. Len(enemies) |-> enemies[i].id])
    /\ [][(combat_mode /\ err' = "none") =>
             /\ combat_mode' =>
                   current_turn_index' \in
                      {current_turn_index,
                       (current_turn_index + 1) % Len(turn_order)}
             /\ Actors(handler_log') \in
                   {<<>>, <<turn_order[current_turn_index + 1]>>}
             /\ (current_turn_index # 0 /\ current_turn_index' = 0) <=>
                   EndsWithBoundary(handler_log', turn_order)
          ]_vars

\* a round of a combat with two enemies was closed by the last handler
C6_Witness ==
    /\ combat_mode
    /\ Len(turn_order) = 3
    /\ current_turn_index = 0
    /\ EndsWithBoundary(handler_log, turn_order)
    /\ Len(prev_round_log) > 6

\* the hooks and action executions of entity id in a round's history
CallsOf(log, id) ==
    LET mine == SelectSeq(log, LAMBDA ev : ev[2] = id)
    IN  [i \in 1 .. Len(mine) |-> mine[i][1]]

\* C7: in every round each participant has on_turn_start invoked once and
\* on_turn_end invoked once, in the order on_turn_start, action, on_turn_end
C7_HooksOncePerRound ==
    prev_round_log # <<>> =>
        \A id \in Participants :
            CallsOf(prev_round_log, id)
                = <<"on_turn_start", "action", "on_turn_end">>

\* C8: an entity that executed Defend (cooldown 3) executes it again only
\* after 3 of its own turn ends
C8_CooldownRespected ==
    \A id \in Participants :
        executed[id].gap = None \/ executed[id].gap >= DefendAction.cooldown


-----------------------------------------------------------------------------
(* SpecDamage: take_damage and on_turn_start called on a Player and an Enemy
   that carry Protection and Poison; every call is recorded *)

\* the Protection and Poison effects the code and the test scripts build
DamageEffects ==
    {ProtectionEffect(2, 1), ProtectionEffect(2, 2), PoisonEffect(3, 1),
     PoisonEffect(3, 2)}

\* a call's result becomes the state, and the call is recorded
Record(w, c) ==
    /\ player' = w.player
    /\ enemies' = w.enemies
    /\ ops' = ops + 1
    /\ call' = c
    /\ UNCHANGED <<mapVars, combatVars, weapons, current_weapon, direction,
                   clock, items>>

\* entity.apply_status_effect(effect); the draw matters when it stacks
DmgApplyEffect ==
    /\ ops < MaxOps
    /\ \E t \in Subjects, effect \in DamageEffects :
          LET e == Get(Now, t)
              c == [op |-> "apply_status_effect", id |-> t, before |-> e]
          IN  IF has_status_effect(e, effect.name)
              THEN \E draw \in UniformDraws :
                      Record(Put(Now, t, apply_status_effect(e, effect, draw)),
                             c)
              ELSE Record(Put(Now, t, apply_status_effect(e, effect, Unit)), c)

\* entity.take_damage(damage, ignore_protection)
DmgTakeDamage ==
    /\ ops < MaxOps
    /\ \E t \in Subjects, damage \in DamageValues, ignore_protection \in BOOLEAN :
          LET e == Get(Now, t)
          IN  Record(Put(Now, t, take_damage(e, damage, ignore_protection)),
                     [op |-> "take_damage", id |-> t, before |-> e,
                      damage |-> damage,
                      ignore_protection |-> ignore_protection])

\* entity.on_turn_start()
DmgTurnStart ==
    /\ ops < MaxOps
    /\ \E t \in Subjects :
          LET e == Get(Now, t)
          IN  Record(Put(Now, t, on_turn_start(e)),
                     [op |-> "on_turn_start", id |-> t, before |-> e])

\* entity.on_turn_end()
DmgTurnEnd ==
    /\ ops < MaxOps
    /\ \E t \in Subjects :
          LET e == Get(Now, t)
          IN  Record(Put(Now, t, on_turn_end(e)),
                     [op |-> "on_turn_end", id |-> t, before |-> e])

\* a Player fresh or as it enters a fight, and one enemy
InitDamage ==
    /\ MapIdle
    /\ CombatIdle
    /\ ExploreIdle
    /\ ops = 0
    /\ \E health \in {EntryHealth, 100} :
          player = [Player(100) EXCEPT !.health = health]
    /\ \E class \in SubjectClasses : enemies = <<Enemy(class, 1)>>

NextDamage ==
    \/ DmgApplyEffect
    \/ DmgTakeDamage
    \/ DmgTurnStart
    \/ DmgTurnEnd

SpecDamage == InitDamage /\ [][NextDamage]_vars

\* the object the recorded call was made on, as it is after the call
Callee == Get(Now, call.id)

\* the intensity of the effect named name on e, 0 if it carries none
IntensityOf(e, name) ==
    IF has_status_effect(e, name)
    THEN e.status_effects[FindEffect(e.status_effects, name)].intensity
    ELSE 0

\* a take_damage call that does not ignore protection, on a protected object
ProtectedHit ==
    /\ call.op = "take_damage"
    /\ call.before.protected
    /\ ~call.ignore_protection

C12_PoisonTick ==
    (call.op = "on_turn_start" /\ has_status_effect(call.before, "Poison")) =>
        Callee.health =
            Max2(0, call.before.health
                     - (5 * IntensityOf(call.before, "Poison")) \div Unit)


-----------------------------------------------------------------------------
(* Weapons (weapons.py). Times are in ticks; a weapon is a record, a shot
   works on the grid and on a roster whose objects carry x and y. *)

\* time.time() is in seconds: held in sixths, which the periods 1/fire_rate
\* of the fire rates 1, 2 and 3 divide
TicksPerSecond == 6

TREE == "T"

\* Weapon.__init__
Weapon(name, damage, range, ammo_capacity, fire_rate) ==
    [name |-> name, damage |-> damage, range |-> range,
     ammo_capacity |-> ammo_capacity, ammo |-> ammo_capacity,
     fire_rate |-> fire_rate, last_shot_time |-> 0]

\* Game.weapons: the seven weapons as their constructors build them
Arsenal ==
    <<Weapon("Laser Pistol", 20, 10, 30, 2), Weapon("Shotgun", 15, 5, 8, 1),
      Weapon("Plasma Rifle", 35, 15, 25, 2),
      Weapon("Grenade Launcher", 25, 8, 12, 1), Weapon("Rail Gun", 45, 12, 8, 3),
      Weapon("Flamethrower", 8, 4, 50, 3), Weapon("Crossbow", 40, 10, 20, 1)>>

\* Weapon.can_shoot at the time now:
\* ammo > 0 and now - last_shot_time >= 1.0 / fire_rate
can_shoot(wp, now) ==
    wp.ammo > 0 /\ (now - wp.last_shot_time) * wp.fire_rate >= TicksPerSecond

\* mutation of reload: no cap at the capacity
reload_uncapped(wp, amount) == [wp EXCEPT !.ammo = wp.ammo + amount]

\* Weapon.reload(amount)
reload(wp, amount) ==
    [wp EXCEPT !.ammo = Min2(wp.ammo_capacity, wp.ammo + amount)]

\* the directions dictionary of a shoot method, and 'right' for a direction
\* that is not a key: the Laser Pistol and the Plasma Rifle also know the
\* four diagonals
DirectionVector(wp, shoot_direction) ==
    LET straight == [up |-> <<0, -1>>, down |-> <<0, 1>>,
                     left |-> <<-1, 0>>, right |-> <<1, 0>>]
        diagonal == [up_left |-> <<-1, -1>>, up_right |-> <<1, -1>>,
                     down_left |-> <<-1, 1>>, down_right |-> <<1, 1>>]
    IN  IF shoot_direction \in DOMAIN straight THEN straight[shoot_direction]
        ELSE IF /\ wp.name \in {"Laser Pistol", "Plasma Rifle"}
                /\ shoot_direction \in DOMAIN diagonal
        THEN diagonal[shoot_direction]
        ELSE straight["right"]

\* the cells of the loop `for i in range(1, range + 1)` from (x, y) by steps
\* of (dx, dy), which breaks at the first cell out of bounds or Wall
Ray(g, w, h, x, y, dx, dy, range) ==
    LET len == CHOOSE k \in 0 .. range :
                   /\ \A i \in 1 .. k :
                         ~is_blocked(g, w, h, x + dx * i, y + dy * i)
                   /\ k < range =>
                         is_blocked(g, w, h, x + dx * (k + 1), y + dy * (k + 1))
    IN  [i \in 1 .. len |-> <<x + dx * i, y + dy * i>>]

\* index of the first enemy of the roster on cell c, 0 if there is none:
\* the loop over enemies that breaks at the first one found
EnemyAt(roster, c) ==
    LET on == {i \in 1 .. Len(roster) : <<roster[i].x, roster[i].y>> = c}
    IN  IF on = {} THEN 0 ELSE CHOOSE i \in on : \A j \in on : i <= j

\* mutation of destroy_terrain: whatever the cell holds becomes ground
destroy_terrain_any(g, cs) ==
    [y \in DOMAIN g |-> [x \in DOMAIN g[y] |->
        IF <<x, y>> \in cs THEN FLOOR ELSE g[y][x]]]

\* Map.destroy_terrain on every cell of cs: a tree becomes ground
destroy_terrain(g, cs) ==
    [y \in DOMAIN g |-> [x \in DOMAIN g[y] |->
        IF <<x, y>> \in cs /\ g[y][x] = TREE THEN FLOOR ELSE g[y][x]]]

\* what a shot leaves: the roster with take_damage(dealt[i]) called on each
\* enemy i of hit, the trees of cells destroyed, the value returned
Shot(wp, g, roster, hit, dealt, cells, ret) ==
    [weapon |-> wp,
     enemies |-> [i \in 1 .. Len(roster) |->
                     IF i \in hit THEN take_damage(roster[i], dealt[i], FALSE)
                     ELSE roster[i]],
     grid |-> destroy_terrain(g, cells),
     ret |-> ret]


\* the cells of a sequence of cells
CellsOf(ray) == {ray[i] : i \in 1 .. Len(ray)}

\* LaserPistol.shoot and Crossbow.shoot after the can_shoot gate: the beam
\* stops on the first cell that holds an enemy and damages the first enemy
\* of the roster found there
single_target_shoot(wp, x, y, d, g, w, h, roster) ==
    LET ray == Ray(g, w, h, x, y, d[1], d[2], wp.range)
        held == {i \in 1 .. Len(ray) : EnemyAt(roster, ray[i]) # 0}
        stop == IF held = {} THEN Len(ray)
                ELSE CHOOSE i \in held : \A j \in held : i <= j
        beam_positions == {ray[i] : i \in 1 .. stop}
        hit == IF held = {} THEN {} ELSE {EnemyAt(roster, ray[stop])}
    IN  Shot(wp, g, roster, hit, [i \in hit |-> wp.damage], beam_positions,
             hit # {} \/ beam_positions # {})

\* mutation of piercing_shoot: the beam stops at the first enemy
piercing_shoot_stopped(wp, x, y, d, g, w, h, roster) ==
    single_target_shoot(wp, x, y, d, g, w, h, roster)

\* PlasmaRifle.shoot and RailGun.shoot after the can_shoot gate: the beam
\* runs on to its end and damages every enemy on its cells
piercing_shoot(wp, x, y, d, g, w, h, roster) ==
    LET beam_positions == CellsOf(Ray(g, w, h, x, y, d[1], d[2], wp.range))
        hit == {i \in 1 .. Len(roster) :
                   <<roster[i].x, roster[i].y>> \in beam_positions}
    IN  Shot(wp, g, roster, hit, [i \in hit |-> wp.damage], beam_positions,
             hit # {} \/ beam_positions # {})

\* Shotgun.shoot after the can_shoot gate: three rays, the one ahead and the
\* two diagonals beside it; on every cell the first enemy found is damaged
Shotgun_shoot(wp, x, y, d, g, w, h, roster) ==
    LET spread == IF d[1] = 0 THEN {<<-1, d[2]>>, <<0, d[2]>>, <<1, d[2]>>}
                  ELSE {<<d[1], -1>>, <<d[1], 0>>, <<d[1], 1>>}
        shotgun_positions ==
            UNION {CellsOf(Ray(g, w, h, x, y, s[1], s[2], wp.range)) :
                      s \in spread}
        hit == {EnemyAt(roster, c) : c \in shotgun_positions} \ {0}
    IN  Shot(wp, g, roster, hit, [i \in hit |-> wp.damage],
             shotgun_positions, shotgun_positions # {})

\* mutation of GrenadeLauncher_shoot: the blast deals full damage on every cell
GrenadeLauncher_shoot_full(wp, x, y, d, g, w, h, roster) ==
    LET impact == <<Max2(0, Min2(x + d[1] * ((wp.range * 2) \div 3), w - 1)),
                    Max2(0, Min2(y + d[2] * ((wp.range * 2) \div 3), h - 1))>>
        explosion_positions ==
            {c \in (impact[1] - 1 .. impact[1] + 1)
                       \X (impact[2] - 1 .. impact[2] + 1) :
                ~is_blocked(g, w, h, c[1], c[2])}
        hit == {i \in 1 .. Len(roster) :
                   <<roster[i].x, roster[i].y>> \in explosion_positions}
    IN  Shot(wp, g, roster, hit, [i \in hit |-> wp.damage],
             explosion_positions, hit # {} \/ explosion_positions # {})

\* GrenadeLauncher.shoot after the can_shoot gate
GrenadeLauncher_shoot(wp, x, y, d, g, w, h, roster) ==
    LET impact_distance == (wp.range * 2) \div 3
        impact == <<Max2(0, Min2(x + d[1] * impact_distance, w - 1)),
                    Max2(0, Min2(y + d[2] * impact_distance, h - 1))>>
        explosion_positions ==
            {c \in (impact[1] - 1 .. impact[1] + 1)
                       \X (impact[2] - 1 .. impact[2] + 1) :
                ~is_blocked(g, w, h, c[1], c[2])}
        hit == {i \in 1 .. Len(roster) :
                   <<roster[i].x, roster[i].y>> \in explosion_positions}
    IN  Shot(wp, g, roster, hit,
             [i \in hit |-> IF <<roster[i].x, roster[i].y>> = impact
                           THEN wp.damage ELSE wp.damage \div 2],
             explosion_positions, hit # {} \/ explosion_positions # {})

\* Flamethrower.shoot after the can_shoot gate: a cone that widens with the
\* distance, not stopped by a Wall, and no tree is destroyed
Flamethrower_shoot(wp, x, y, d, g, w, h, roster) ==
    LET flame_positions ==
            {c \in UNION {{IF d[1] = 0 THEN <<x + s, y + d[2] * i>>
                           ELSE <<x + d[1] * i, y + s>> :
                              s \in -(i \div 2 + 1) .. (i \div 2 + 1)} :
                          i \in 1 .. wp.range} :
                ~is_blocked(g, w, h, c[1], c[2])}
        hit == {i \in 1 .. Len(roster) :
                   <<roster[i].x, roster[i].y>> \in flame_positions}
    IN  Shot(wp, g, roster, hit, [i \in hit |-> wp.damage], {},
             hit # {} \/ flame_positions # {})

\* mutation of shoot: the ammo is spent before the can_shoot gate
shoot_spend_first(wp, x, y, shoot_direction, g, w, h, roster, now) ==
    Shot([wp EXCEPT !.ammo = @ - 1], g, roster, {}, <<>>, {}, FALSE)

\* weapon.shoot(x, y, direction, game_map, enemies) at the time now:
\* nothing happens unless can_shoot; else the time is noted, one round is
\* spent and the weapon's own method runs
shoot(wp, x, y, shoot_direction, g, w, h, roster, now) ==
    IF ~can_shoot(wp, now) THEN Shot(wp, g, roster, {}, <<>>, {}, FALSE)
    ELSE LET fired == [wp EXCEPT !.last_shot_time = now, !.ammo = @ - 1]
             d == DirectionVector(wp, shoot_direction)
         IN  IF wp.name \in {"Laser Pistol", "Crossbow"}
             THEN single_target_shoot(fired, x, y, d, g, w, h, roster)
             ELSE IF wp.name \in {"Plasma Rifle", "Rail Gun"}
             THEN piercing_shoot(fired, x, y, d, g, w, h, roster)
             ELSE IF wp.name = "Shotgun"
             THEN Shotgun_shoot(fired, x, y, d, g, w, h, roster)
             ELSE IF wp.name = "Grenade Launcher"
             THEN GrenadeLauncher_shoot(fired, x, y, d, g, w, h, roster)
             ELSE Flamethrower_shoot(fired, x, y, d, g, w, h, roster)


-----------------------------------------------------------------------------
(* SpecWeapons: shots, reloads and pickups with the weapon in hand, on a
   small arena with the player and three enemies standing still *)

\* an object at its position; x and y are fields of Player and Enemy
Placed(e, c) == e @@ [x |-> c[1], y |-> c[2]]

\* the arena: open ground inside the bounds of the grid, one Wall below the
\* player's cell and one tree to its right
Arena ==
    [y \in 0 .. (ArenaH - 1) |-> [x \in 0 .. (ArenaW - 1) |->
        IF <<x, y>> = <<1, 3>> THEN WALL
        ELSE IF <<x, y>> = <<2, 2>> THEN TREE
        ELSE FLOOR]]

\* where the player stands
PlayerCell == <<1, 2>>

\* where the enemies stand: in a row to the right, the last one 11 cells
\* away; around the cell 5 cells to the right; two on one cell and one
\* behind the Wall; on the diagonals
Layouts ==
    {<<<<3, 2>>, <<6, 2>>, <<12, 2>>>>, <<<<6, 2>>, <<7, 3>>, <<5, 1>>>>,
     <<<<3, 2>>, <<3, 2>>, <<1, 4>>>>, <<<<2, 1>>, <<3, 0>>, <<3, 4>>>>}

\* the directions a caller passes: the keys of the dictionaries, and the
\* 'up-left' Game.direction holds after a diagonal move
ShootDirections ==
    {"up", "down", "left", "right", "up_left", "up_right", "down_left",
     "down_right", "up-left"}

\* the ways the ammo is refilled and the amount of each: the reload key
\* (half the capacity), an 'A' cell, a 'P' cell, an AmmoPack
RefillAmount(wp, kind) ==
    IF kind = "reload" THEN wp.ammo_capacity \div 2
    ELSE IF kind = "P" THEN 5
    ELSE 10

\* what a recorded call works on, as it is now
Scene == [weapons |-> weapons, enemies |-> enemies, grid |-> grid]

\* current_weapon.shoot(player.x, player.y, direction, game_map, enemies)
WpnShoot ==
    /\ ops < MaxShots
    /\ \E shoot_direction \in ShootDirections :
          LET r == shoot(weapons[current_weapon], player.x, player.y,
                         shoot_direction, grid, width, height, enemies, clock)
          IN  /\ weapons' = [weapons EXCEPT ![current_weapon] = r.weapon]
              /\ enemies' = r.enemies
              /\ grid' = r.grid
              /\ call' = [op |-> "shoot", ret |-> r.ret, now |-> clock,
                          direction |-> shoot_direction, before |-> Scene]
    /\ ops' = ops + 1
    /\ UNCHANGED <<player, width, height, gen_pc, start_idx, carve_stack,
                   open_areas, area_idx, rooms, attempts, combatVars,
                   current_weapon, direction, clock, items>>

\* `for weapon in weapons: weapon.reload(amount)` of the reload key and of
\* Player.move on an 'A' or a 'P' cell, and the AmmoPack of check_item_pickup
WpnRefill ==
    /\ ops < MaxShots
    /\ \E kind \in {"reload", "A", "P", "AmmoPack"} :
          /\ weapons' = [k \in 1 .. Len(weapons) |->
                            reload(weapons[k], RefillAmount(weapons[k], kind))]
          /\ call' = [op |-> kind, before |-> Scene]
    /\ ops' = ops + 1
    /\ UNCHANGED <<player, enemies, mapVars, combatVars, current_weapon,
                   direction, clock, items>>

\* time passes: half a second or a whole one
WpnTick ==
    /\ ops < MaxShots
    /\ \E d \in {3, 6} : clock' = clock + d
    /\ ops' = ops + 1
    /\ UNCHANGED <<player, enemies, mapVars, combatVars, weapons,
                   current_weapon, direction, items, call>>

\* any weapon in hand; every weapon full and never fired, or empty and last
\* fired a second ago, or down to its last round and last fired 2, 3 or 6
\* ticks ago
InitWeapons ==
    /\ width = ArenaW
    /\ height = ArenaH
    /\ grid = Arena
    /\ gen_pc = "done"
    /\ start_idx = 0
    /\ carve_stack = <<>>
    /\ open_areas = <<>>
    /\ area_idx = 0
    /\ rooms = <<>>
    /\ attempts = 0
    /\ CombatIdle
    /\ ops = 0
    /\ player = Placed(Player(100), PlayerCell)
    /\ \E layout \in Layouts :
          enemies = [i \in 1 .. 3 |->
                        Placed(Enemy(<<"FastEnemy", "Enemy", "TankEnemy">>[i], i),
                               layout[i])]
    /\ clock = 2 * TicksPerSecond
    /\ \/ weapons = Arsenal
       \/ \E used \in {<<0, 6>>, <<1, 2>>, <<1, 3>>, <<1, 6>>} :
             weapons = [k \in 1 .. Len(Arsenal) |->
                           [Arsenal[k] EXCEPT
                               !.ammo = used[1],
                               !.last_shot_time = clock - used[2]]]
    /\ current_weapon \in 1 .. Len(Arsenal)
    /\ direction = "right"
    /\ items = <<>>
    /\ call = NoCall

NextWeapons ==
    \/ WpnShoot
    \/ WpnRefill
    \/ WpnTick

SpecWeapons == InitWeapons /\ [][NextWeapons]_vars


\* the recorded call is a shot / a refill of the ammo
IsShot == call.op = "shoot"

IsRefill == call.op \in {"reload", "A", "P", "AmmoPack"}

\* the weapon in hand before the recorded call, and the shot's vector
Shooter == call.before.weapons[current_weapon]

ShotVector == DirectionVector(Shooter, call.direction)

\* the recorded shot passed the can_shoot gate
Fired == IsShot /\ can_shoot(Shooter, call.now)

\* C13: after any sequence of shots, reloads and pickups every weapon has
\* 0 <= ammo <= ammo_capacity, and a weapon's ammo is higher after an
\* operation than before it only if the operation is a reload or a pickup
C13_AmmoInRange ==
    /\ \A k \in 1 .. Len(weapons) :
          0 <= weapons[k].ammo /\ weapons[k].ammo <= weapons[k].ammo_capacity
    /\ call.op # "none" =>
          \A k \in 1 .. Len(weapons) :
              weapons[k].ammo > call.before.weapons[k].ammo => IsRefill

\* the weapon in hand was fired empty, and the pickup of an 'A' cell then
\* filled it up, stopping at a capacity below the 10 rounds picked up
C13_Witness ==
    /\ ops = 2
    /\ call.op = "A"
    /\ Shooter.ammo = 0
    /\ Shooter.last_shot_time = clock
    /\ weapons[current_weapon].ammo = Shooter.ammo_capacity
    /\ Shooter.ammo_capacity < 10

\* C14: a weapon's ammo goes down only in a shoot call that returns true,
\* and then by exactly 1; a shoot call that returns false leaves the ammo
\* and the last_shot_time of the weapon as they were
C14_AmmoSpentOnlyOnSuccess ==
    /\ call.op # "none" =>
          \A k \in 1 .. Len(weapons) :
              weapons[k].ammo < call.before.weapons[k].ammo =>
                  /\ IsShot /\ call.ret
                  /\ weapons[k].ammo = call.before.weapons[k].ammo - 1
    /\ (IsShot /\ ~call.ret) =>
          /\ weapons[current_weapon].ammo = Shooter.ammo
          /\ weapons[current_weapon].last_shot_time = Shooter.last_shot_time

\* C15: a shoot call made with no ammo, or before 1 / fire_rate seconds have
\* passed since the last shot, returns false and changes nothing: the
\* weapons, the grid and the enemies are as before
C15_RefusedShotChangesNothing ==
    (IsShot /\ (\/ Shooter.ammo = 0
                \/ (call.now - Shooter.last_shot_time) * Shooter.fire_rate
                       < TicksPerSecond)) =>
        /\ ~call.ret
        /\ weapons = call.before.weapons
        /\ grid = call.before.grid
        /\ enemies = call.before.enemies

\* a second shot in the tick of the first, with ammo left, after the first
\* one hurt an enemy
C15_Witness ==
    /\ ops = 2
    /\ IsShot
    /\ Shooter.ammo > 0
    /\ Shooter.last_shot_time = call.now
    /\ \E i \in 1 .. Len(enemies) : enemies[i].health < enemies[i].created_health

\* the enemies (roster indices) of the recorded shot that stand in line
\* with the shooter along the shot's vector, within the weapon's range and
\* with no Wall between
Aligned ==
    {i \in 1 .. Len(enemies) :
        \E k \in 1 .. Shooter.range :
            /\ call.before.enemies[i].x = player.x + k * ShotVector[1]
            /\ call.before.enemies[i].y = player.y + k * ShotVector[2]
            /\ \A j \in 1 .. k :
                  call.before.grid[player.y + j * ShotVector[2]]
                                  [player.x + j * ShotVector[1]] # WALL}

\* the steps from the shooter to enemy i
StepsTo(i) ==
    Max2(Abs(call.before.enemies[i].x - player.x),
         Abs(call.before.enemies[i].y - player.y))

\* enemy i took one unprotected hit of the weapon's damage / was not hurt
HitOnce(i) ==
    enemies[i].health = call.before.enemies[i].health - Shooter.damage

Unhurt(i) == enemies[i].health = call.before.enemies[i].health

\* C16: with two or more enemies on distinct cells in line with the shot,
\* within range and with no Wall before them, a Rail Gun or a Plasma Rifle
\* damages every one of them once, and a Laser Pistol or a Crossbow damages
\* the nearest one only
C16_PiercingAndSingleTarget ==
    (/\ Fired
     /\ Cardinality(Aligned) >= 2
     /\ \A i, j \in Aligned : StepsTo(i) = StepsTo(j) => i = j) =>
        /\ Shooter.name \in {"Rail Gun", "Plasma Rifle"} =>
              \A i \in Aligned : HitOnce(i)
        /\ Shooter.name \in {"Laser Pistol", "Crossbow"} =>
              \A i \in Aligned :
                  IF \A j \in Aligned : StepsTo(i) <= StepsTo(j)
                  THEN HitOnce(i) ELSE Unhurt(i)

\* a Rail Gun shot along a row of three enemies hurt all three, the
\* farthest one out of a Laser Pistol's range
C16_Witness ==
    /\ Fired
    /\ Shooter.name = "Rail Gun"
    /\ Cardinality(Aligned) = 3
    /\ \E i \in Aligned : StepsTo(i) > Arsenal[1].range
    /\ \A i \in Aligned : HitOnce(i)

\* the impact cell of the recorded shot, were it a grenade
Impact ==
    <<Max2(0, Min2(player.x + ShotVector[1] * ((2 * Shooter.range) \div 3),
                   width - 1)),
      Max2(0, Min2(player.y + ShotVector[2] * ((2 * Shooter.range) \div 3),
                   height - 1))>>

\* C17: a grenade lands floor(2 * range / 3) cells along the shot's vector,
\* clamped to the grid; an enemy on the impact cell loses the full damage,
\* an enemy on one of the 8 cells around it loses floor(damage / 2), each
\* once, and no other enemy is hurt
C17_GrenadeBlast ==
    (Fired /\ Shooter.name = "Grenade Launcher") =>
        \A i \in 1 .. Len(enemies) :
            LET dx == Abs(call.before.enemies[i].x - Impact[1])
                dy == Abs(call.before.enemies[i].y - Impact[2])
            IN  enemies[i].health =
                    call.before.enemies[i].health
                      - (IF dx = 0 /\ dy = 0 THEN Shooter.damage
                         ELSE IF dx <= 1 /\ dy <= 1 THEN Shooter.damage \div 2
                         ELSE 0)

\* a grenade fired to the right from 5 cells away: 25 on the impact cell,
\* 12 on an enemy diagonally next to it
C17_Witness ==
    /\ Fired
    /\ Shooter.name = "Grenade Launcher"
    /\ \E i \in 1 .. Len(enemies) :
          /\ <<call.before.enemies[i].x, call.before.enemies[i].y>> = Impact
          /\ Impact[1] = player.x + 5
          /\ enemies[i].health = call.before.enemies[i].health - 25
    /\ \E i \in 1 .. Len(enemies) :
          /\ Abs(call.before.enemies[i].x - Impact[1]) = 1
          /\ Abs(call.before.enemies[i].y - Impact[2]) = 1
          /\ enemies[i].health = call.before.enemies[i].health - 12

\* the positions a shoot method collects for the weapon wp fired from (x, y)
\* along d: beam_positions, bolt_positions, shotgun_positions,
\* explosion_positions, flame_positions
Traced(wp, x, y, d, g, w, h, roster) ==
    IF wp.name \in {"Laser Pistol", "Crossbow"}
    THEN LET ray == Ray(g, w, h, x, y, d[1], d[2], wp.range)
             held == {i \in 1 .. Len(ray) : EnemyAt(roster, ray[i]) # 0}
         IN  {ray[i] : i \in 1 .. (IF held = {} THEN Len(ray)
                                    ELSE CHOOSE i \in held :
                                             \A j \in held : i <= j)}
    ELSE IF wp.name \in {"Plasma Rifle", "Rail Gun"}
    THEN CellsOf(Ray(g, w, h, x, y, d[1], d[2], wp.range))
    ELSE IF wp.name = "Shotgun"
    THEN UNION {CellsOf(Ray(g, w, h, x, y, s[1], s[2], wp.range)) :
                   s \in IF d[1] = 0
                         THEN {<<-1, d[2]>>, <<0, d[2]>>, <<1, d[2]>>}
                         ELSE {<<d[1], -1>>, <<d[1], 0>>, <<d[1], 1>>}}
    ELSE IF wp.name = "Grenade Launcher"
    THEN {c \in (Max2(0, Min2(x + d[1] * ((wp.range * 2) \div 3), w - 1)) - 1
                  .. Max2(0, Min2(x + d[1] * ((wp.range * 2) \div 3), w - 1)) + 1)
                 \X (Max2(0, Min2(y + d[2] * ((wp.range * 2) \div 3), h - 1)) - 1
                  .. Max2(0, Min2(y + d[2] * ((wp.range * 2) \div 3), h - 1)) + 1) :
             ~is_blocked(g, w, h, c[1], c[2])}
    ELSE {c \in UNION {{IF d[1] = 0 THEN <<x + s, y + d[2] * i>>
                        ELSE <<x + d[1] * i, y + s>> :
                           s \in -(i \div 2 + 1) .. (i \div 2 + 1)} :
                       i \in 1 .. wp.range} :
             ~is_blocked(g, w, h, c[1], c[2])}

\* the positions the recorded shot collected
ShotCells ==
    Traced(Shooter, player.x, player.y, ShotVector, call.before.grid, width,
           height, call.before.enemies)

\* C25: after a shot of any weapon, every cell among the positions of the
\* shot that held Trees before it is Floor
C25_TracedTreesFelled ==
    Fired => \A c \in ShotCells :
                 call.before.grid[c[2]][c[1]] = TREE => grid[c[2]][c[1]] = FLOOR

\* enemy i stood in the line of the recorded shot, and a Wall of that line
\* stood nearer to the player
BehindWall(i) ==
    /\ call.before.enemies[i].x = player.x + StepsTo(i) * ShotVector[1]
    /\ call.before.enemies[i].y = player.y + StepsTo(i) * ShotVector[2]
    /\ \E n \in 1 .. (StepsTo(i) - 1) :
          call.before.grid[player.y + n * ShotVector[2]]
                          [player.x + n * ShotVector[1]] = WALL

\* C26: a shot of any weapon damages no enemy that stands in the line of
\* the shot behind a Wall, and fells no tree there
C26_WallEndsTrajectory ==
    Fired => \A i \in 1 .. Len(enemies) : BehindWall(i) => Unhurt(i)



-----------------------------------------------------------------------------
(* Exploration (game.py, player.py, enemy.py): movement on the grid. An
   enemy in exploration also carries move_cooldown and strategy; rnd holds
   the random draws of one move_towards call. *)

\* Map.get_terrain_damage
get_terrain_damage(g, w, h, x, y) ==
    IF ~InBounds(w, h, x, y) THEN 0
    ELSE IF g[y][x] = "L" THEN 15
    ELSE IF g[y][x] = "S" THEN 8
    ELSE 0

\* entity.can_act(): skip is the draw random.random() < 0.5
can_act(e, skip) == ~e.paralyzed /\ ~(e.slowed /\ skip)

\* Enemy._would_collide_with_enemy
would_collide_with_enemy(e, x, y, all_enemies) ==
    \E i \in 1 .. Len(all_enemies) :
        /\ all_enemies[i].id # e.id
        /\ all_enemies[i].x = x
        /\ all_enemies[i].y = y

\* mutation of CanStep: the other enemies are not looked at
CanStep_past_enemies(e, x, y, g, w, h, p, all_enemies) ==
    /\ ~is_blocked(g, w, h, x, y)
    /\ ~(x = p.x /\ y = p.y)

\* the test every enemy step makes on its destination
CanStep(e, x, y, g, w, h, p, all_enemies) ==
    /\ ~is_blocked(g, w, h, x, y)
    /\ ~(x = p.x /\ y = p.y)
    /\ ~would_collide_with_enemy(e, x, y, all_enemies)

\* the step itself: the terrain damage of the destination, then the move
StepTo(e, x, y, g, w, h) ==
    LET terrain_damage == get_terrain_damage(g, w, h, x, y)
        hurt == IF terrain_damage > 0
                THEN take_damage(e, terrain_damage, FALSE) ELSE e
    IN  [hurt EXCEPT !.x = x, !.y = y]

\* +1 or -1 as `1 if d > 0 else -1`
Toward(d) == IF d > 0 THEN 1 ELSE -1

\* Enemy._direct_move: along the longer axis, else along the other one
direct_move(e, dx, dy, g, w, h, p, all_enemies) ==
    LET along_x == <<e.x + Toward(dx), e.y>>
        along_y == <<e.x, e.y + Toward(dy)>>
        first == IF Abs(dx) > Abs(dy) THEN along_x ELSE along_y
        second == IF Abs(dx) > Abs(dy) THEN along_y ELSE along_x
    IN  IF CanStep(e, first[1], first[2], g, w, h, p, all_enemies)
        THEN StepTo(e, first[1], first[2], g, w, h)
        ELSE IF CanStep(e, second[1], second[2], g, w, h, p, all_enemies)
        THEN StepTo(e, second[1], second[2], g, w, h)
        ELSE e

\* Enemy._flanking_move: a step across the longer axis on the side the coin
\* picks, else the direct move
flanking_move(e, dx, dy, g, w, h, p, all_enemies, side) ==
    LET c == IF Abs(dx) > Abs(dy) THEN <<e.x, e.y + side>>
             ELSE <<e.x + side, e.y>>
    IN  IF CanStep(e, c[1], c[2], g, w, h, p, all_enemies)
        THEN StepTo(e, c[1], c[2], g, w, h)
        ELSE direct_move(e, dx, dy, g, w, h, p, all_enemies)

\* Enemy._circling_move: the side is fixed by the parity of x + y
circling_move(e, dx, dy, g, w, h, p, all_enemies) ==
    flanking_move(e, dx, dy, g, w, h, p, all_enemies,
                  IF (e.x + e.y) % 2 = 0 THEN 1 ELSE -1)

\* SniperEnemy.move_towards closer than preferred_distance: one step away
\* along the longer axis, or none
sniper_retreat(e, dx, dy, g, w, h, p, all_enemies) ==
    LET c == IF Abs(dx) > Abs(dy) THEN <<e.x - Toward(dx), e.y>>
             ELSE <<e.x, e.y - Toward(dy)>>
    IN  IF CanStep(e, c[1], c[2], g, w, h, p, all_enemies)
        THEN StepTo(e, c[1], c[2], g, w, h)
        ELSE e

\* mutation of the speeds: every subclass moves every other tick
Speed_flat(class) == IF class = "StealthEnemy" THEN 1 ELSE 2

\* speed of the subclasses
Speed(class) ==
    IF class = "TankEnemy" THEN 3
    ELSE IF class = "StealthEnemy" THEN 1
    ELSE 2


\* mutation of _try_heal_allies: heal_range is not looked at
HealerEnemy_try_heal_allies_far(roster, i) ==
    LET self == roster[i]
        Near(e) == /\ e.id # self.id
                   /\ e.health < 50
    IN  IF \E k \in 1 .. Len(roster) : Near(roster[k])
        THEN [[k \in 1 .. Len(roster) |->
                  IF Near(roster[k]) THEN heal_ally(roster[k]) ELSE roster[k]]
                EXCEPT ![i].heal_cooldown = 8]
        ELSE roster

\* HealerEnemy._try_heal_allies with positions: every other enemy within
\* heal_range 5 and under 50 health is healed, and a heal sets heal_cooldown
\* to 8
HealerEnemy_try_heal_allies(roster, i) ==
    LET self == roster[i]
        Near(e) == /\ e.id # self.id
                   /\ Abs(e.x - self.x) + Abs(e.y - self.y) <= 5
                   /\ e.health < 50
    IN  IF \E k \in 1 .. Len(roster) : Near(roster[k])
        THEN [[k \in 1 .. Len(roster) |->
                  IF Near(roster[k]) THEN heal_ally(roster[k]) ELSE roster[k]]
                EXCEPT ![i].heal_cooldown = 8]
        ELSE roster

\* move_towards of Enemy and of its five subclasses, for the enemy at
\* position i of the roster; rnd holds the draws: skip (can_act), side (the
\* flanking coin), strategy and cooldown (Enemy), go (StealthEnemy)
move_towards(roster, i, tx, ty, g, w, h, p, rnd) ==
    LET self == roster[i]
        dx == tx - self.x
        dy == ty - self.y
        distance == Abs(dx) + Abs(dy)
        cooled(e) == [e EXCEPT !.move_cooldown = Speed(e.class) - 1]
    IN  IF ~can_act(self, rnd.skip) THEN roster
        ELSE IF self.move_cooldown > 0
        THEN [roster EXCEPT ![i].move_cooldown = @ - 1]
        ELSE IF self.class = "Enemy"
        THEN LET moved ==
                     IF self.strategy = "direct"
                     THEN direct_move(self, dx, dy, g, w, h, p, roster)
                     ELSE IF self.strategy = "flanking"
                     THEN flanking_move(self, dx, dy, g, w, h, p, roster,
                                        rnd.side)
                     ELSE IF self.strategy = "circling"
                     THEN circling_move(self, dx, dy, g, w, h, p, roster)
                     ELSE self
             IN  [roster EXCEPT ![i] =
                     [moved EXCEPT !.strategy = rnd.strategy,
                                   !.move_cooldown = rnd.cooldown]]
        ELSE IF self.class = "FastEnemy"
        THEN [roster EXCEPT ![i] =
                 cooled(direct_move(self, dx, dy, g, w, h, p, roster))]
        ELSE IF self.class = "TankEnemy"
        THEN [roster EXCEPT ![i] =
                 cooled(circling_move(self, dx, dy, g, w, h, p, roster))]
        ELSE IF self.class = "SniperEnemy"
        THEN [roster EXCEPT ![i] =
                 cooled(IF distance < 8
                        THEN sniper_retreat(self, dx, dy, g, w, h, p, roster)
                        ELSE flanking_move(self, dx, dy, g, w, h, p, roster,
                                           rnd.side))]
        ELSE IF self.class = "HealerEnemy"
        THEN LET healed == IF self.heal_cooldown <= 0
                           THEN HealerEnemy_try_heal_allies(roster, i) ELSE roster
                 moved == cooled(flanking_move(healed[i], dx, dy, g, w, h, p,
                                               healed, rnd.side))
             IN  [healed EXCEPT ![i] =
                     [moved EXCEPT !.heal_cooldown = Max2(0, @ - 1)]]
        ELSE [roster EXCEPT ![i] =
                 cooled(IF distance <= 6
                        THEN flanking_move(self, dx, dy, g, w, h, p, roster,
                                           rnd.side)
                        ELSE IF rnd.go
                        THEN direct_move(self, dx, dy, g, w, h, p, roster)
                        ELSE self)]

\* the value Player.move returns: False when the player cannot act, when
\* the cell is blocked and when an enemy of the roster stands on it
Player_move_returns(g, dx, dy, w, h, skip) ==
    /\ can_act(g.player, skip)
    /\ ~is_blocked(g.grid, w, h, g.player.x + dx, g.player.y + dy)
    /\ ~\E k \in 1 .. Len(g.enemies) :
            /\ g.enemies[k].x = g.player.x + dx
            /\ g.enemies[k].y = g.player.y + dy

\* mutation of Player.move: the terrain damage is taken before the tests
Player_move_hurt_first(g, dx, dy, w, h, skip) ==
    LET terrain_damage == get_terrain_damage(g.grid, w, h, g.player.x + dx,
                                             g.player.y + dy)
        hurt == IF terrain_damage > 0
                THEN take_damage(g.player, terrain_damage, FALSE)
                ELSE g.player
    IN  IF Player_move_returns(g, dx, dy, w, h, skip)
        THEN [g EXCEPT !.player = [hurt EXCEPT !.x = @ + dx, !.y = @ + dy]]
        ELSE [g EXCEPT !.player = hurt]

\* Player.move(dx, dy, game_map, weapons, enemies) on the Game object g: the
\* move is refused when the player cannot act, when the cell is blocked and
\* when an enemy of the roster stands on it
Player_move(g, dx, dy, w, h, skip) ==
    LET p == g.player
        new_x == p.x + dx
        new_y == p.y + dy
        terrain_damage == get_terrain_damage(g.grid, w, h, new_x, new_y)
        hurt == IF terrain_damage > 0
                THEN take_damage(p, terrain_damage, FALSE) ELSE p
        item == IF InBounds(w, h, new_x, new_y)
                   /\ g.grid[new_y][new_x] \in {"H", "A", "P"}
                THEN g.grid[new_y][new_x] ELSE "None"
        healed == IF item = "H" THEN Min2(hurt.max_health, hurt.health + 20)
                  ELSE IF item = "P"
                  THEN Min2(hurt.max_health, hurt.health + 10)
                  ELSE hurt.health
    IN  IF ~can_act(p, skip) THEN g
        ELSE IF is_blocked(g.grid, w, h, new_x, new_y) THEN g
        ELSE IF \E k \in 1 .. Len(g.enemies) :
                    g.enemies[k].x = new_x /\ g.enemies[k].y = new_y
        THEN g
        ELSE [g EXCEPT
                 !.player = [hurt EXCEPT !.x = new_x, !.y = new_y,
                                         !.health = healed],
                 !.grid = IF item = "None" THEN @
                          ELSE [@ EXCEPT ![new_y][new_x] = FLOOR],
                 !.weapons = IF item \in {"A", "P"}
                             THEN [k \in 1 .. Len(@) |->
                                      reload(@[k], RefillAmount(@[k], item))]
                             ELSE @]

\* HealthPack(x, y) and AmmoPack(x, y), with their default amounts
HealthPack(x, y) == [kind |-> "HealthPack", x |-> x, y |-> y, amount |-> 25]

AmmoPack(x, y) == [kind |-> "AmmoPack", x |-> x, y |-> y, amount |-> 10]

\* check_item_pickup: the first item of the list on the player's cell is
\* picked up and removed
check_item_pickup(g) ==
    LET on == {k \in 1 .. Len(g.items) :
                  g.items[k].x = g.player.x /\ g.items[k].y = g.player.y}
    IN  IF on = {} THEN g
        ELSE LET k == CHOOSE a \in on : \A b \in on : a <= b
                 item == g.items[k]
             IN  IF item.kind = "HealthPack"
                 THEN [g EXCEPT !.player.health = Min2(100, @ + item.amount),
                                !.items = RemoveAt(@, k)]
                 ELSE [g EXCEPT
                          !.weapons = [j \in 1 .. Len(@) |->
                              [@[j] EXCEPT !.ammo =
                                  Min2(g.weapons[j].ammo_capacity,
                                       g.weapons[j].ammo + item.amount)]],
                          !.items = RemoveAt(@, k)]


\* the strategies random.choice picks from
Strategies == {"direct", "flanking", "circling"}

\* the draws of one move_towards call by enemy e that its result can depend
\* on
Draws(e) ==
    {[skip |-> skip, side |-> side, strategy |-> strategy,
      cooldown |-> cooldown, go |-> go] :
        skip \in (IF e.slowed THEN BOOLEAN ELSE {FALSE}),
        side \in (IF e.move_cooldown = 0
                     /\ e.class \notin {"FastEnemy", "TankEnemy"}
                     /\ (e.class = "Enemy" => e.strategy = "flanking")
                  THEN {1, -1} ELSE {1}),
        strategy \in (IF e.move_cooldown = 0 /\ e.class = "Enemy"
                      THEN Strategies ELSE {"direct"}),
        cooldown \in (IF e.move_cooldown = 0 /\ e.class = "Enemy"
                      THEN 0 .. 2 ELSE {0}),
        go \in (IF e.move_cooldown = 0 /\ e.class = "StealthEnemy"
                THEN BOOLEAN ELSE {FALSE})}

\* the cell an enemy makes for: next to the player on the enemy's side when
\* it is less than 8 cells away, else the player's cell
PursuitTarget(e, p) ==
    LET dx == p.x - e.x
        dy == p.y - e.y
    IN  IF Abs(dx) + Abs(dy) < 8
        THEN IF Abs(dx) > Abs(dy)
             THEN IF dx > 0 THEN <<p.x - 1, p.y>> ELSE <<p.x + 1, p.y>>
             ELSE IF dy > 0 THEN <<p.x, p.y - 1>> ELSE <<p.x, p.y + 1>>
        ELSE <<p.x, p.y>>

\* the end of the body of the enemy loop, roster being Game.enemies after
\* the move of the enemy at position i: check_collision, and the removal
after_move(g, i, roster) ==
    [g EXCEPT
        !.player = IF roster[i].x = @.x /\ roster[i].y = @.y
                   THEN take_damage(@, 10, FALSE) ELSE @,
        !.enemies = IF roster[i].health <= 0 THEN RemoveAt(roster, i)
                    ELSE roster]

\* the body of the loop `for enemy in self.enemies[:]` for the enemy with
\* identity id: it moves, the player takes 10 damage if it stands on the
\* player's cell, and it is removed from the roster if its health is 0 or
\* less
enemy_turn(g, id, w, h, rnd) ==
    after_move(g, RosterIndex(g.enemies, id),
               move_towards(g.enemies, RosterIndex(g.enemies, id),
                            PursuitTarget(Get(g, id), g.player)[1],
                            PursuitTarget(Get(g, id), g.player)[2],
                            g.grid, w, h, g.player, rnd))

\* the loop over the copy ids of the roster, from position k: the set of
\* the Game objects the draws can lead to
RECURSIVE update_enemies(_, _, _, _, _)
update_enemies(g, ids, k, w, h) ==
    IF k > Len(ids) THEN {g}
    ELSE UNION {update_enemies(enemy_turn(g, ids[k], w, h, rnd), ids, k + 1,
                               w, h) :
                   rnd \in Draws(g.enemies[RosterIndex(g.enemies, ids[k])])}

\* what a shot leaves in the Game object: the weapon, the roster, the grid
after_shot(g, r) ==
    [g EXCEPT !.weapons[g.current_weapon] = r.weapon,
              !.enemies = r.enemies,
              !.grid = r.grid]

\* current_weapon.shoot(player.x, player.y, direction, game_map, enemies)
fire(g, shoot_direction, w, h, now) ==
    after_shot(g, shoot(g.weapons[g.current_weapon], g.player.x, g.player.y,
                        shoot_direction, g.grid, w, h, g.enemies, now))

\* the move keys: the step and the value Game.direction takes; next_key is
\* the key getch returns after w or s
MoveOf(key, next_key) ==
    IF key = "w"
    THEN IF next_key = "a" THEN <<-1, -1, "up-left">>
         ELSE IF next_key = "d" THEN <<1, -1, "up-right">>
         ELSE <<0, -1, "up">>
    ELSE IF key = "s"
    THEN IF next_key = "a" THEN <<-1, 1, "down-left">>
         ELSE IF next_key = "d" THEN <<1, 1, "down-right">>
         ELSE <<0, 1, "down">>
    ELSE IF key = "a" THEN <<-1, 0, "left">>
    ELSE <<1, 0, "right">>

\* the keys i, k, j, l and the direction each fires in
FireKeys == [i |-> "up", k |-> "down", j |-> "left", l |-> "right"]

\* the keys 1 to 7 and the index in Game.weapons each selects
SwitchKeys ==
    [k \in {"1", "2", "3", "4", "5", "6", "7"} |->
        CHOOSE n \in 1 .. 7 : <<"1", "2", "3", "4", "5", "6", "7">>[n] = k]

\* the keys after which the enemies move
PlayerActionKeys == {"w", "a", "s", "d", " ", "r"}

\* the branch of handle_exploration_input for the key: a move with its
\* pickup, a shot, a switch of the weapon or a reload
key_branch(g, key, next_key, w, h, now, skip) ==
    IF key \in {"w", "s", "a", "d"}
    THEN [check_item_pickup(Player_move(g, MoveOf(key, next_key)[1],
                                        MoveOf(key, next_key)[2], w, h, skip))
             EXCEPT !.direction = MoveOf(key, next_key)[3]]
    ELSE IF key \in {" "} \cup DOMAIN FireKeys
    THEN fire(g, IF key = " " THEN g.direction ELSE FireKeys[key], w, h, now)
    ELSE IF key \in DOMAIN SwitchKeys
    THEN [g EXCEPT !.current_weapon = SwitchKeys[key]]
    ELSE IF key = "r"
    THEN [g EXCEPT !.weapons =
             [k \in 1 .. Len(@) |->
                 reload(@[k], RefillAmount(@[k], "reload"))]]
    ELSE g

\* the end of handle_exploration_input: the enemies move after a key of the
\* player_action list
after_key(g, key, w, h) ==
    IF key \in PlayerActionKeys /\ ~g.combat_mode
    THEN update_enemies(g, [k \in 1 .. Len(g.enemies) |-> g.enemies[k].id],
                        1, w, h)
    ELSE {g}

\* Game.handle_exploration_input(key) at time now: the set of the Game
\* objects it can leave, one for each outcome of the enemies' draws. The
\* score and the messages are not part of g, and the draw that spawns an
\* enemy (1 in 20) is taken to fail.
handle_exploration_input(g, key, next_key, w, h, now, skip) ==
    IF key = "q" THEN {g}
    ELSE after_key(key_branch(g, key, next_key, w, h, now, skip), key, w, h)

\* Game.check_combat_start: an enemy at a Manhattan distance of 1 or less
check_combat_start(g) ==
    \E k \in 1 .. Len(g.enemies) :
        Abs(g.player.x - g.enemies[k].x) + Abs(g.player.y - g.enemies[k].y)
            <= 1

\* Game.update_exploration
update_exploration(g) ==
    IF check_combat_start(g) THEN enter_combat(g) ELSE g


-----------------------------------------------------------------------------
(* SpecExplore: the frames of Game.run in exploration, up to the frame that
   starts combat: a key is handled, then Game.update runs *)

\* an enemy as its constructor leaves it at cell c: Enemy draws its
\* strategy, the subclasses set theirs, HealerEnemy adds heal_cooldown
Spawned(class, id, c, strategy) ==
    Placed(Enemy(class, id), c)
        @@ [move_cooldown |-> 0,
            strategy |-> IF class = "Enemy" THEN strategy
                         ELSE IF class = "FastEnemy" THEN "direct"
                         ELSE IF class = "TankEnemy" THEN "circling"
                         ELSE "flanking"]
        @@ (IF class = "HealerEnemy" THEN [heal_cooldown |-> 0]
            ELSE <<>>)

\* the field: open ground inside the bounds of the grid, a Wall left of the
\* player's cell, lava two cells to its right, an 'A' cell above it, an 'H'
\* cell right of it, a tree two cells below it
Field ==
    [y \in 0 .. (ArenaH - 1) |-> [x \in 0 .. (ArenaW - 1) |->
        IF <<x, y>> = <<2, 2>> THEN WALL
        ELSE IF <<x, y>> = <<5, 2>> THEN "L"
        ELSE IF <<x, y>> = <<3, 1>> THEN "A"
        ELSE IF <<x, y>> = <<4, 2>> THEN "H"
        ELSE IF <<x, y>> = <<3, 4>> THEN TREE
        ELSE FLOOR]]

\* where the player stands
ExplorerCell == <<3, 2>>

\* the rosters the exploration starts with, two enemies of the classes
\* Game.__init__ picks from, as class and cell: in the row of the player
\* beyond the lava; on two diagonal neighbours of the player's cell; side
\* by side; far away and close
Rosters ==
    {<<<<"FastEnemy", <<6, 2>>>>, <<"TankEnemy", <<7, 2>>>>>>,
     <<<<"FastEnemy", <<4, 1>>>>, <<"TankEnemy", <<4, 3>>>>>>,
     <<<<"TankEnemy", <<6, 3>>>>, <<"FastEnemy", <<7, 3>>>>>>,
     <<<<"SniperEnemy", <<8, 2>>>>, <<"HealerEnemy", <<7, 3>>>>>>,
     <<<<"StealthEnemy", <<11, 1>>>>, <<"FastEnemy", <<5, 3>>>>>>}

\* the Game object at the start of an exploration handler
ExploreGame ==
    Game @@ [grid |-> grid, weapons |-> weapons,
             current_weapon |-> current_weapon, direction |-> direction,
             items |-> items]

\* the Game object after a handler becomes the state; c records the call
ReturnExplore(g, pc, c) ==
    /\ player' = g.player
    /\ enemies' = g.enemies
    /\ err' = g.err
    /\ combat_mode' = g.combat_mode
    /\ turn_order' = g.turn_order
    /\ current_turn_index' = g.current_turn_index
    /\ selected_action' = g.selected_action
    /\ selected_target' = g.selected_target
    /\ valid_targets' = g.valid_targets
    /\ handler_log' = g.handler_log
    /\ round_log' = g.round_log
    /\ prev_round_log' = g.prev_round_log
    /\ executed' = g.executed
    /\ frame_pc' = pc
    /\ grid' = g.grid
    /\ weapons' = g.weapons
    /\ current_weapon' = g.current_weapon
    /\ direction' = g.direction
    /\ items' = g.items
    /\ call' = c
    /\ UNCHANGED <<width, height, gen_pc, start_idx, carve_stack, open_areas,
                   area_idx, rooms, attempts>>

\* a key is handled in exploration
Handle(key, next_key) ==
    /\ frame_pc = "input"
    /\ ~combat_mode
    /\ ops < MaxKeys
    /\ \E skip \in (IF player.slowed THEN BOOLEAN ELSE {FALSE}) :
          \E g \in handle_exploration_input(ExploreGame, key, next_key,
                                            width, height, clock, skip) :
              ReturnExplore(g, "update",
                            [op |-> "key", key |-> key, next_key |-> next_key,
                             before |-> [player |-> player,
                                         enemies |-> enemies]])
    /\ ops' = ops + 1
    /\ clock' = clock

\* the keys typed in exploration: the moves, the shots, the weapons, the
\* reload
ExploreKeys ==
    {"w", "s", "a", "d", " ", "r"} \cup DOMAIN FireKeys \cup DOMAIN SwitchKeys

\* Game.handle_input in exploration
ExpKey ==
    /\ err = "none"
    /\ \E key \in ExploreKeys :
          \E next_key \in (IF key \in {"w", "s"} THEN {"a", "d", "none"}
                           ELSE {"none"}) :
              Handle(key, next_key)

\* Game.update in exploration; the next frame comes half a second later
ExpUpdate ==
    /\ frame_pc = "update"
    /\ ~combat_mode
    /\ clock' = clock + TicksPerSecond \div 2
    /\ ReturnExplore(update_exploration(ExploreGame), "input",
                     [op |-> "update"])
    /\ UNCHANGED ops

\* Game.__init__ on the field: full health, every weapon full, the Laser
\* Pistol in hand
InitExplore ==
    /\ width = ArenaW
    /\ height = ArenaH
    /\ grid = Field
    /\ gen_pc = "done"
    /\ start_idx = 0
    /\ carve_stack = <<>>
    /\ open_areas = <<>>
    /\ area_idx = 0
    /\ rooms = <<>>
    /\ attempts = 0
    /\ CombatIdle
    /\ ops = 0
    /\ player = Placed(Player(100), ExplorerCell)
    /\ \E roster \in Rosters :
          enemies = [i \in 1 .. Len(roster) |->
                        Spawned(roster[i][1], i, roster[i][2], "direct")]
    /\ weapons = Arsenal
    /\ current_weapon = 1
    /\ direction = "right"
    /\ clock = 2 * TicksPerSecond
    /\ items = <<HealthPack(4, 3), AmmoPack(2, 1)>>
    /\ call = NoCall

NextExplore ==
    \/ ExpKey
    \/ ExpUpdate

SpecExplore == InitExplore /\ [][NextExplore]_vars


\* the last handler handled a key; a move key
IsKey == call.op = "key"

IsMoveKey == IsKey /\ call.key \in {"w", "s", "a", "d"}

\* the cell the player's last move led to, had it not been refused
Destination ==
    LET m == MoveOf(call.key, call.next_key)
    IN  <<call.before.player.x + m[1], call.before.player.y + m[2]>>

\* C18: in exploration without spawning, from pairwise distinct positions,
\* no two enemies of the roster stand on one cell and no enemy stands on
\* the player's cell
C18_NoSharedCell ==
    /\ \A i, j \in 1 .. Len(enemies) :
          i # j => <<enemies[i].x, enemies[i].y>> # <<enemies[j].x, enemies[j].y>>
    /\ \A i \in 1 .. Len(enemies) :
          <<enemies[i].x, enemies[i].y>> # <<player.x, player.y>>

\* a move of the player onto the cell of an enemy was refused, and in the
\* same handler an enemy moved
C18_Witness ==
    /\ IsMoveKey
    /\ \E i \in 1 .. Len(call.before.enemies) :
          <<call.before.enemies[i].x, call.before.enemies[i].y>> = Destination
    /\ <<player.x, player.y>> = <<call.before.player.x, call.before.player.y>>
    /\ \E i \in 1 .. Len(enemies) :
          \E j \in 1 .. Len(call.before.enemies) :
              /\ enemies[i].id = call.before.enemies[j].id
              /\ <<enemies[i].x, enemies[i].y>>
                    # <<call.before.enemies[j].x, call.before.enemies[j].y>>

\* C19: after an exploration key is handled, the roster holds no enemy
\* whose health is 0 or less
C19_NoDeadEnemyInRoster ==
    IsKey => \A i \in 1 .. Len(enemies) : enemies[i].health > 0

\* the cells Map.collect_item empties
PickupCells == {"H", "A", "P"}

-----------------------------------------------------------------------------
(* SpecParalysis: the frames of combat when one entity enters it under a
   ParalysisEffect(duration=2), applied through apply_status_effect *)

InitParalysis ==
    /\ MapIdle
    /\ CombatIdle
    /\ ExploreIdle
    /\ ops = 0
    /\ \E weapon \in {None, MockWeapon}, n \in 1 .. MaxEnemies :
          \E classes \in [1 .. n -> CombatClasses], id \in 0 .. n :
              LET p == [Player(100) EXCEPT !.health = EntryHealth,
                                           !.weapon = weapon]
                  roster == [i \in 1 .. n |-> Enemy(classes[i], i)]
                  struck == Put(World(p, roster), id,
                                apply_status_effect(
                                    Get(World(p, roster), id),
                                    ParalysisEffect(2), Unit))
              IN  /\ player = struck.player
                  /\ enemies = struck.enemies

SpecParalysis == InitParalysis /\ [][NextCombat]_vars

\* C20: an entity that is paralyzed executes no combat action: no action of
\* the last handler was executed by an entity that is still paralyzed when
\* the handler returns (no handler of combat applies a paralysis, so such an
\* entity was paralyzed when it acted)
C20_ParalyzedExecutesNoAction ==
    \A i \in 1 .. Len(handler_log) :
        LET id == handler_log[i][2]
        IN  (/\ handler_log[i][1] = "action"
             /\ (id = 0 \/ RosterIndex(enemies, id) # 0))
                => ~Get(Now, id).paralyzed


-----------------------------------------------------------------------------
(* SpecCrowd: the frames of combat against a roster of more than three
   enemies, which spawning can build up to MAX_ENEMIES *)

\* the size of the roster
CrowdSize == MaxEnemies + 2

\* the player's health when combat starts: enough for three enemy attacks
CrowdHealth == EntryHealth + 20

InitCrowd ==
    /\ MapIdle
    /\ CombatIdle
    /\ ExploreIdle
    /\ ops = 0
    /\ \E weapon \in {None, MockWeapon} :
          player = [Player(100) EXCEPT !.health = CrowdHealth,
                                       !.weapon = weapon]
    /\ \E first \in {"FastEnemy", "TankEnemy"} :
          enemies = [i \in 1 .. CrowdSize |->
                        Enemy(IF i = 1 THEN first ELSE "FastEnemy", i)]

SpecCrowd == InitCrowd /\ [][NextCombat]_vars

\* the ids of the entities that execute an action in the handler that makes
\* the step
ActingNext ==
    {handler_log'[i][2] : i \in {k \in 1 .. Len(handler_log') :
                                    handler_log'[k][1] = "action"}}

\* the health of the enemy with identity id, in a roster
HealthIn(roster, id) == roster[RosterIndex(roster, id)].health

\* C21: in combat, a handler in which an enemy executes an action reduces
\* the health of no enemy
C21_NoEnemyHurtsEnemy ==
    [][(\E id \in ActingNext : id # 0) =>
          \A i \in 1 .. Len(enemies) :
              RosterIndex(enemies', enemies[i].id) # 0 =>
                  HealthIn(enemies', enemies[i].id) >= enemies[i].health]_vars

\* C22: in combat, the handler of a key executes an action only while the
\* turn is the player's, and as the player; and while the turn is the
\* player's, the turn index moves only in a handler in which the player
\* executes an action
C22_ConfirmOnPlayerTurn ==
    [][combat_mode =>
          /\ (frame_pc = "input" /\ ActingNext # {}) =>
                /\ turn_order[current_turn_index + 1] = 0
                /\ ActingNext = {0}
          /\ (/\ current_turn_index < Len(turn_order)
              /\ turn_order[current_turn_index + 1] = 0
              /\ combat_mode'
              /\ current_turn_index' # current_turn_index) =>
                0 \in ActingNext]_vars

\* C32: an enemy whose health is 0 or less executes no action in combat
C32_DefeatedEnemyIdle ==
    [][\A id \in ActingNext :
          id # 0 => (RosterIndex(enemies, id) # 0 /\ HealthIn(enemies, id) > 0)
      ]_vars


-----------------------------------------------------------------------------
(* SpecMove: calls of Player.move and of the enemies' move_towards on a yard
   with every kind of cell around the player, the entities under the
   effects that matter to a move *)

\* the yard: around the cell <<3, 2>> a Wall, lava, spikes, a tree and the
\* three pickups; open ground elsewhere inside the bounds of the grid
Yard ==
    [y \in 0 .. (ArenaH - 1) |-> [x \in 0 .. (ArenaW - 1) |->
        IF <<x, y>> = <<2, 2>> THEN WALL
        ELSE IF <<x, y>> = <<4, 2>> THEN "L"
        ELSE IF <<x, y>> = <<3, 3>> THEN "S"
        ELSE IF <<x, y>> = <<3, 1>> THEN "A"
        ELSE IF <<x, y>> = <<2, 1>> THEN "H"
        ELSE IF <<x, y>> = <<4, 1>> THEN "P"
        ELSE IF <<x, y>> = <<4, 3>> THEN TREE
        ELSE IF <<x, y>> = <<7, 1>> THEN WALL
        ELSE FLOOR]]

\* the rosters of the yard, as class and cell: an enemy next to the lava
\* and one on a diagonal neighbour of <<3, 2>>; two enemies beside a Wall; an
\* enemy in a corner of the grid and one far away
YardRosters ==
    {<<<<"FastEnemy", <<5, 2>>>>, <<"Enemy", <<2, 3>>>>>>,
     <<<<"SniperEnemy", <<6, 1>>>>, <<"TankEnemy", <<8, 1>>>>>>,
     <<<<"HealerEnemy", <<0, 0>>>>, <<"StealthEnemy", <<12, 4>>>>>>}

\* the effects an entity of the yard can be under
YardEffects ==
    {<<>>, <<ParalysisEffect(2)>>, <<SlowEffect(2)>>,
     <<ProtectionEffect(2, 1)>>}

\* entity e after apply_status_effect of each effect of the list
Under(e, effects) ==
    IF effects = <<>> THEN e ELSE apply_status_effect(e, effects[1], Unit)

\* what a movement call works on, as it is now
MoveScene ==
    [player |-> player, enemies |-> enemies, grid |-> grid,
     weapons |-> weapons]

\* a movement call's result becomes the state, and the call is recorded
RecordMove(g, c) ==
    /\ player' = g.player
    /\ enemies' = g.enemies
    /\ grid' = g.grid
    /\ weapons' = g.weapons
    /\ call' = c
    /\ ops' = ops + 1
    /\ UNCHANGED <<width, height, gen_pc, start_idx, carve_stack, open_areas,
                   area_idx, rooms, attempts, combatVars, current_weapon,
                   direction, clock, items>>

\* player.move(dx, dy, game_map, weapons, enemies)
MvPlayer ==
    /\ ops < MaxMoves
    /\ \E dx \in {-1, 0, 1}, dy \in {-1, 0, 1} :
          \E skip \in (IF player.slowed THEN BOOLEAN ELSE {FALSE}) :
              /\ <<dx, dy>> # <<0, 0>>
              /\ RecordMove(Player_move(MoveScene, dx, dy, width, height, skip),
                            [op |-> "move", dx |-> dx, dy |-> dy,
                             ret |-> Player_move_returns(MoveScene, dx, dy,
                                                         width, height, skip),
                             before |-> MoveScene])

\* enemy.move_towards(x, y, game_map, player, enemies) with the target the
\* enemy loop passes
MvEnemy ==
    /\ ops < MaxMoves
    /\ \E i \in 1 .. Len(enemies) :
          \E rnd \in Draws(enemies[i]) :
              RecordMove([MoveScene EXCEPT !.enemies =
                             move_towards(enemies, i,
                                 PursuitTarget(enemies[i], player)[1],
                                 PursuitTarget(enemies[i], player)[2],
                                 grid, width, height, player, rnd)],
                         [op |-> "move_towards", id |-> enemies[i].id,
                          before |-> MoveScene])

InitMove ==
    /\ width = ArenaW
    /\ height = ArenaH
    /\ grid = Yard
    /\ gen_pc = "done"
    /\ start_idx = 0
    /\ carve_stack = <<>>
    /\ open_areas = <<>>
    /\ area_idx = 0
    /\ rooms = <<>>
    /\ attempts = 0
    /\ CombatIdle
    /\ ops = 0
    /\ \E c \in {<<3, 2>>, <<0, 4>>}, effects \in YardEffects :
          player = Under(Placed(Player(100), c), effects)
    /\ \E roster \in YardRosters, effects \in YardEffects,
          strategy \in Strategies :
          enemies = [i \in 1 .. Len(roster) |->
                        Under(Spawned(roster[i][1], i, roster[i][2], strategy),
                              effects)]
    /\ weapons = [k \in 1 .. Len(Arsenal) |-> [Arsenal[k] EXCEPT !.ammo = 1]]
    /\ current_weapon = 1
    /\ direction = "right"
    /\ clock = 2 * TicksPerSecond
    /\ items = <<>>
    /\ call = NoCall

NextMove ==
    \/ MvPlayer
    \/ MvEnemy

SpecMove == InitMove /\ [][NextMove]_vars

\* the recorded call is a Player.move
IsMove == call.op = "move"

\* C23: a Player.move that returns False leaves the player's position and
\* health, the grid and the ammo of every weapon as they were; one that
\* returns True moves the player by exactly (dx, dy)
C23_MoveAllOrNothing ==
    IsMove =>
        IF call.ret
        THEN /\ player.x = call.before.player.x + call.dx
             /\ player.y = call.before.player.y + call.dy
        ELSE /\ player.x = call.before.player.x
             /\ player.y = call.before.player.y
             /\ player.health = call.before.player.health
             /\ grid = call.before.grid
             /\ \A k \in 1 .. Len(weapons) :
                   weapons[k].ammo = call.before.weapons[k].ammo

\* a move onto the lava refused because an enemy stands there
C23_Witness ==
    /\ IsMove
    /\ ~call.ret
    /\ get_terrain_damage(grid, width, height, player.x + call.dx,
                          player.y + call.dy) > 0
    /\ \E k \in 1 .. Len(enemies) :
          /\ enemies[k].x = player.x + call.dx
          /\ enemies[k].y = player.y + call.dy

\* the damage of the cell entity e stands on, as the grid g has it
EntryDamage(g, e) == get_terrain_damage(g, width, height, e.x, e.y)

\* the enemy of the recorded move_towards call, before and after it
MoverBefore == call.before.enemies[RosterIndex(call.before.enemies, call.id)]

Mover == enemies[RosterIndex(enemies, call.id)]

\* C27: a Player or an Enemy that enters a Lava or a Spikes cell loses the
\* cell's damage (15 or 8) in full, the Player down to 0 at most, whether
\* or not it is under Protection
C27_TerrainDamageInFull ==
    /\ (IsMove /\ call.ret /\ EntryDamage(call.before.grid, player) > 0) =>
          player.health =
              Max2(0, call.before.player.health
                        - EntryDamage(call.before.grid, player))
    /\ (/\ call.op = "move_towards"
        /\ <<Mover.x, Mover.y>> # <<MoverBefore.x, MoverBefore.y>>
        /\ EntryDamage(call.before.grid, Mover) > 0) =>
          Mover.health =
              MoverBefore.health - EntryDamage(call.before.grid, Mover)

\* C29: after any sequence of Player.move and move_towards calls of the
\* enemy classes, from in-bounds cells that are not Walls, the player and
\* every enemy stand on an in-bounds cell that is not a Wall
C29_OnOpenCells ==
    \A e \in Entities :
        /\ InBounds(width, height, e.x, e.y)
        /\ grid[e.y][e.x] # WALL

\* a SniperEnemy beside a Wall has spent its move on the Wall cell and
\* stayed, and a move of the player onto a Wall cell was refused
C29_Witness ==
    /\ IsMove
    /\ ~call.ret
    /\ ~player.paralyzed
    /\ InBounds(width, height, player.x + call.dx, player.y + call.dy)
    /\ grid[player.y + call.dy][player.x + call.dx] = WALL
    /\ \E i \in 1 .. Len(enemies) :
          /\ enemies[i].class = "SniperEnemy"
          /\ enemies[i].move_cooldown > 0
          /\ grid[enemies[i].y][enemies[i].x + 1] = WALL


-----------------------------------------------------------------------------
(* SpecActions: the actions of a Player, who has mana, and of a TankEnemy,
   who has none: an action is executed when can_execute allows it, a turn
   ends (Game.next_turn updates the cooldowns), a turn starts *)

\* an action of every kind the constructors of combat_actions.py build
ActionCatalog ==
    <<AttackAction, DefendAction, UseItemAction("health_potion"),
      UseItemAction("mana_potion"), UseItemAction("antidote"),
      CastSpellAction("fireball"), CastSpellAction("heal"),
      CastSpellAction("paralyze")>>

\* the mana the player starts a sequence with: none, the cost of a Heal, of a
\* Fireball, all of it
ManaLevels == {0, 10, 15, 50}

\* a call's result becomes the state, and the call is recorded
RecordAction(w, c) ==
    /\ w.err = "none"
    /\ player' = w.player
    /\ enemies' = w.enemies
    /\ call' = c
    /\ ops' = ops + 1
    /\ UNCHANGED <<mapVars, combatVars, weapons, current_weapon, direction,
                   clock, items>>

\* `if action.can_execute(entity): action.execute(entity, target)`
ActExecute ==
    /\ ops < MaxCasts
    /\ \E id \in {0, 1} :
          \E slot \in 1 .. Len(Get(Now, id).actions), tid \in {None, 0, 1} :
              /\ can_execute(Get(Now, id).actions[slot], Get(Now, id))
              /\ RecordAction(execute(Now, Get(Now, id).actions[slot], slot,
                                      id, tid, Unit),
                              [op |-> "execute", id |-> id, slot |-> slot,
                               before |-> Now])

\* `for action in current_entity.actions: action.update_cooldown()`
ActTurnEnd ==
    /\ ops < MaxCasts
    /\ \E id \in {0, 1} :
          RecordAction(Put(Now, id,
                           [Get(Now, id) EXCEPT !.actions =
                               [k \in 1 .. Len(@) |-> update_cooldown(@[k])]]),
                       [op |-> "update_cooldown", id |-> id, before |-> Now])

\* entity.on_turn_start()
ActTurnStart ==
    /\ ops < MaxCasts
    /\ \E id \in {0, 1} :
          RecordAction(Put(Now, id, on_turn_start(Get(Now, id))),
                       [op |-> "on_turn_start", id |-> id, before |-> Now])

\* a Player with a weapon, with its own five actions or with one of every
\* kind, and a TankEnemy
InitActions ==
    /\ MapIdle
    /\ CombatIdle
    /\ ExploreIdle
    /\ ops = 0
    /\ \E mana \in ManaLevels, actions \in {Player(100).actions, ActionCatalog} :
          player = [Player(100) EXCEPT !.weapon = MockWeapon, !.mana = mana,
                                       !.actions = actions]
    /\ enemies = <<Enemy("TankEnemy", 1)>>

NextActions ==
    \/ ActExecute
    \/ ActTurnEnd
    \/ ActTurnStart

SpecActions == InitActions /\ [][NextActions]_vars

\* the entity of the recorded call before it and now, and the action
\* executed as it was before the call
Owner == Get(Now, call.id)

OwnerBefore == Get(call.before, call.id)

ExecutedAction == OwnerBefore.actions[call.slot]

\* C30: can_execute is true exactly when the action's current_cooldown is 0
\* and, for an owner that has mana, mana >= mana_cost; execute takes exactly
\* mana_cost from the mana of such an owner (a mana potion then restores up
\* to 20) and sets current_cooldown to cooldown; under executions gated by
\* can_execute, cooldown updates and turn starts, 0 <= mana <= max_mana and
\* 0 <= current_cooldown <= cooldown
C30_ActionContract ==
    /\ \A e \in Entities :
          /\ \A k \in 1 .. Len(e.actions) :
                /\ can_execute(e.actions[k], e) <=>
                      /\ e.actions[k].current_cooldown = 0
                      /\ HasAttr(e, "mana") => e.mana >= e.actions[k].mana_cost
                /\ 0 <= e.actions[k].current_cooldown
                /\ e.actions[k].current_cooldown <= e.actions[k].cooldown
          /\ HasAttr(e, "mana") => 0 <= e.mana /\ e.mana <= e.max_mana
    /\ call.op = "execute" =>
          /\ Owner.actions[call.slot].current_cooldown = ExecutedAction.cooldown
          /\ HasAttr(OwnerBefore, "mana") =>
                Owner.mana =
                    IF ExecutedAction.arg = "mana_potion"
                    THEN Min2(OwnerBefore.max_mana,
                              OwnerBefore.mana - ExecutedAction.mana_cost + 20)
                    ELSE OwnerBefore.mana - ExecutedAction.mana_cost

\* the player has cast a Fireball with its last 15 mana while another of
\* its actions is cooling down, and cannot cast a Heal now
C30_Witness ==
    /\ call.op = "execute"
    /\ call.id = 0
    /\ ExecutedAction.name = "Fireball"
    /\ OwnerBefore.mana = ExecutedAction.mana_cost
    /\ player.mana = 0
    /\ \E k \in 1 .. Len(player.actions) :
          /\ 0 < player.actions[k].current_cooldown
          /\ player.actions[k].current_cooldown < player.actions[k].cooldown
    /\ \E k \in 1 .. Len(player.actions) :
          /\ player.actions[k].name = "Heal"
          /\ player.actions[k].current_cooldown = 0
          /\ ~can_execute(player.actions[k], player)

-----------------------------------------------------------------------------
(* SpecExpiry: the life of an effect from its application to its expiry,
   with the applications, removals and turn ends since recorded *)

\* the operations on one entity
MaxTurns == 4

\* one constructor call of each duration, with and without an attribute
ExpiryCatalog ==
    {ParalysisEffect(1), ProtectionEffect(2, 1), PoisonEffect(3, 1),
     SlowEffect(3)}

ExpiryNames == {effect.name : effect \in ExpiryCatalog}

\* what is recorded of a name: the duration d it was last applied with while
\* inactive (0: never), the turn ends since, and whether it has been neither
\* re-applied nor removed since
Untracked == [d |-> 0, ends |-> 0, clean |-> FALSE]

\* entity.apply_status_effect(effect)
XpApply ==
    /\ ops < MaxTurns
    /\ \E effect \in ExpiryCatalog :
          IF has_status_effect(Get(Now, Subject), effect.name)
          THEN \E draw \in UniformDraws :
                  RecordAction(
                      Put(Now, Subject,
                          apply_status_effect(Get(Now, Subject), effect, draw)),
                      [call EXCEPT !.op = "apply",
                                   !.track[effect.name].clean = FALSE])
          ELSE RecordAction(
                   Put(Now, Subject,
                       apply_status_effect(Get(Now, Subject), effect, Unit)),
                   [call EXCEPT !.op = "apply",
                                !.track[effect.name] =
                                    [d |-> effect.duration \div Unit,
                                     ends |-> 0, clean |-> TRUE]])

\* entity.remove_status_effect(effect_name), for the names of the catalogue
XpRemove ==
    /\ ops < MaxTurns
    /\ \E effect_name \in ExpiryNames :
          RecordAction(
              Put(Now, Subject,
                  remove_status_effect(Get(Now, Subject), effect_name)),
              [call EXCEPT !.op = "remove",
                           !.track[effect_name].clean = FALSE])

\* entity.clear_all_status_effects()
XpClear ==
    /\ ops < MaxTurns
    /\ RecordAction(
           Put(Now, Subject, clear_all_status_effects(Get(Now, Subject))),
           [call EXCEPT !.op = "clear",
                        !.track = [n \in ExpiryNames |->
                                      [@[n] EXCEPT !.clean = FALSE]]])

\* entity.on_turn_end()
XpTurnEnd ==
    /\ ops < MaxTurns
    /\ RecordAction(
           Put(Now, Subject, on_turn_end(Get(Now, Subject))),
           [call EXCEPT !.op = "turn_end",
                        !.track = [n \in ExpiryNames |->
                                      [@[n] EXCEPT !.ends = @ + 1]]])

InitExpiry ==
    /\ MapIdle
    /\ CombatIdle
    /\ weapons = <<>>
    /\ current_weapon = 0
    /\ direction = "right"
    /\ clock = 0
    /\ items = <<>>
    /\ call = [op |-> "none", track |-> [n \in ExpiryNames |-> Untracked]]
    /\ player = Player(100)
    /\ enemies \in {<<>>, <<Enemy("Enemy", 1)>>}
    /\ ops = 0

NextExpiry ==
    \/ XpApply
    \/ XpRemove
    \/ XpClear
    \/ XpTurnEnd

SpecExpiry == InitExpiry /\ [][NextExpiry]_vars

\* the entity operated on
Bearer == Get(Now, Subject)

\* C34: an effect applied with duration d >= 1 and neither re-applied nor
\* removed since is active, with d minus the elapsed turn ends left, through
\* d-1 turn ends, and from the d-th turn end on it is out of the list with
\* its attribute clear; after a turn end no effect of the list has a
\* duration <= 0
C34_ExpiresAtDthTurnEnd ==
    /\ \A n \in ExpiryNames :
          (call.track[n].d >= 1 /\ call.track[n].clean) =>
              IF call.track[n].ends < call.track[n].d
              THEN /\ has_status_effect(Bearer, n)
                   /\ Bearer.status_effects[
                          FindEffect(Bearer.status_effects, n)].duration =
                          (call.track[n].d - call.track[n].ends) * Unit
                   /\ n \in FlagNames => Bearer[FlagOf(n)]
              ELSE /\ ~has_status_effect(Bearer, n)
                   /\ n \in FlagNames => ~Bearer[FlagOf(n)]
    /\ call.op = "turn_end" =>
          \A i \in 1 .. Len(Bearer.status_effects) :
              Bearer.status_effects[i].duration > 0

\* a Slow applied with duration 3 has just expired at its third turn end
C34_Witness ==
    /\ call.op = "turn_end"
    /\ call.track["Slow"].clean
    /\ call.track["Slow"].d = 3
    /\ call.track["Slow"].ends = 3
    /\ ~has_status_effect(Bearer, "Slow")
    /\ ~Bearer.slowed

-----------------------------------------------------------------------------
(* SpecPatrol: the move_towards calls of the four archetypes with a
   cooldown cycle, none under an effect, with the cooldown each call found *)

\* the move_towards calls of a run
MaxTicks == 7

\* the archetypes together, as class and cell of the yard: two pairs, and a
\* healer beside a FastEnemy with a SniperEnemy seven cells from it
PatrolRosters ==
    {<<<<"FastEnemy", <<5, 2>>>>, <<"TankEnemy", <<8, 1>>>>>>,
     <<<<"SniperEnemy", <<6, 1>>>>, <<"HealerEnemy", <<0, 0>>>>>>,
     <<<<"HealerEnemy", <<6, 4>>>>, <<"FastEnemy", <<7, 4>>>>,
       <<"SniperEnemy", <<12, 3>>>>>>}

\* enemy.move_towards(x, y, game_map, player, enemies) with the target the
\* enemy loop passes; the cooldown the call found is appended to the
\* enemy's record
PtTick ==
    /\ ops < MaxTicks
    /\ \E i \in 1 .. Len(enemies) :
          \E rnd \in Draws(enemies[i]) :
              RecordMove([MoveScene EXCEPT !.enemies =
                             move_towards(enemies, i,
                                 PursuitTarget(enemies[i], player)[1],
                                 PursuitTarget(enemies[i], player)[2],
                                 grid, width, height, player, rnd)],
                         [op |-> "move_towards", id |-> enemies[i].id,
                          before |-> MoveScene,
                          found |-> [call.found EXCEPT ![enemies[i].id] =
                                        Append(@, enemies[i].move_cooldown)]])

InitPatrol ==
    /\ width = ArenaW
    /\ height = ArenaH
    /\ grid = Yard
    /\ gen_pc = "done"
    /\ start_idx = 0
    /\ carve_stack = <<>>
    /\ open_areas = <<>>
    /\ area_idx = 0
    /\ rooms = <<>>
    /\ attempts = 0
    /\ CombatIdle
    /\ ops = 0
    /\ player \in {Placed(Player(100), <<3, 2>>), Placed(Player(100), <<0, 4>>)}
    /\ \E roster \in PatrolRosters :
          enemies = [i \in 1 .. Len(roster) |->
                        Spawned(roster[i][1], i, roster[i][2], "direct")]
    /\ weapons = <<>>
    /\ current_weapon = 0
    /\ direction = "right"
    /\ clock = 0
    /\ items = <<>>
    /\ call = [op |-> "none", found |-> [id \in 1 .. 3 |-> <<>>]]

NextPatrol == PtTick

SpecPatrol == InitPatrol /\ [][NextPatrol]_vars

\* the speeds the archetypes are documented with
DocumentedSpeed(class) == IF class = "TankEnemy" THEN 3 ELSE 2

\* the enemy of the recorded call before it and now
Ticker == enemies[RosterIndex(enemies, call.id)]

TickerBefore == call.before.enemies[RosterIndex(call.before.enemies, call.id)]

\* the calls of sequence found that found the cooldown at 0, among those at
\* positions a .. b
FiredIn(found, a, b) == Cardinality({k \in a .. b : found[k] = 0})

\* C35: absent status effects an archetype with speed s attempts a move on
\* exactly one of every s consecutive ticks: the tick that finds
\* move_cooldown at 0 leaves it at s-1, every other tick takes one from it
\* and moves nothing, and every s consecutive ticks hold exactly one that
\* found it at 0
C35_OneMovePerSpeedTicks ==
    /\ call.op = "move_towards" =>
          IF TickerBefore.move_cooldown = 0
          THEN Ticker.move_cooldown = DocumentedSpeed(Ticker.class) - 1
          ELSE /\ Ticker.move_cooldown = TickerBefore.move_cooldown - 1
               /\ Ticker.x = TickerBefore.x
               /\ Ticker.y = TickerBefore.y
               /\ Ticker.health = TickerBefore.health
    /\ \A i \in 1 .. Len(enemies) :
          LET found == call.found[enemies[i].id]
              s == DocumentedSpeed(enemies[i].class)
          IN  \A a \in 1 .. Len(found) :
                  a + s - 1 <= Len(found) => FiredIn(found, a, a + s - 1) = 1

\* a TankEnemy has moved on its first tick, waited two ticks and tries its
\* second move on the fourth
C35_Witness ==
    /\ call.op = "move_towards"
    /\ Ticker.class = "TankEnemy"
    /\ call.found[call.id] = <<0, 2, 1, 0>>
    /\ Ticker.move_cooldown = 2

\* the enemies of the roster the healer of the recorded call could heal as
\* the call began: another enemy, at Manhattan distance <= 5, under 50 health
InHealReach(e) ==
    /\ e.id # call.id
    /\ Abs(e.x - TickerBefore.x) + Abs(e.y - TickerBefore.y) <= 5
    /\ e.health < 50

\* a move tick of a HealerEnemy is recorded: with heal_cooldown 0 exactly the
\* other enemies in reach gain 20 health, at most up to 100, the healer's
\* own health does not rise, and when an ally was healed the tick leaves
\* heal_cooldown at left; with heal_cooldown > 0 no other enemy's health
\* changes
HealerTickHeals(left) ==
    (/\ call.op = "move_towards"
     /\ TickerBefore.class = "HealerEnemy"
     /\ TickerBefore.move_cooldown = 0) =>
        /\ Ticker.health <= TickerBefore.health
        /\ \A k \in 1 .. Len(call.before.enemies) :
              LET e == call.before.enemies[k]
              IN  e.id # call.id =>
                      HealthIn(enemies, e.id) =
                          IF TickerBefore.heal_cooldown = 0 /\ InHealReach(e)
                          THEN Min2(e.health + 20, 100)
                          ELSE e.health
        /\ (/\ TickerBefore.heal_cooldown = 0
            /\ \E k \in 1 .. Len(call.before.enemies) :
                  InHealReach(call.before.enemies[k])) =>
                Ticker.heal_cooldown = left

\* C36 as stated: on a move tick of a HealerEnemy with heal_cooldown 0
\* exactly the other enemies within distance 5 and under 50 health gain 20
\* health capped at 100, the healer never heals itself, and a tick that
\* healed an ally leaves heal_cooldown at 8; with heal_cooldown > 0 no
\* ally's health changes
C36_HealerTick == HealerTickHeals(8)

\* C36, amended: the same, but the tick that healed an ally ends with
\* heal_cooldown at 7, the 8 set by the heal having been decremented once at
\* the end of the same tick
C36_HealerTickLeavesSeven == HealerTickHeals(7)

\* a healer's move tick has healed the FastEnemy beside it from 30 to 50 and
\* left the SniperEnemy out of reach at 40
C36_Witness ==
    /\ call.op = "move_towards"
    /\ TickerBefore.class = "HealerEnemy"
    /\ TickerBefore.heal_cooldown = 0
    /\ Ticker.heal_cooldown = 7
    /\ \E k \in 1 .. Len(enemies) :
          /\ enemies[k].class = "FastEnemy"
          /\ enemies[k].health = 50
          /\ HealthIn(call.before.enemies, enemies[k].id) = 30
    /\ \E k \in 1 .. Len(enemies) :
          /\ enemies[k].class = "SniperEnemy"
          /\ enemies[k].health = 40

-----------------------------------------------------------------------------
(* SpecDisplay: shots fired with and without a display handle *)

\* the length of the symbol string a shoot method hands to
\* animate_with_timing, as the source file spells it: '-' and '*' are one
\* character, the symbols of the other weapons are strings of three or four
SymbolLength(wp) ==
    IF wp.name \in {"Laser Pistol", "Shotgun"} THEN 1
    ELSE IF wp.name = "Flamethrower" THEN 4
    ELSE 3

\* animate_with_timing(stdscr, positions, symbol, duration, game_map,
\* enemies) on the roster: nothing without a handle or without positions;
\* else stdscr.addch is called for the first position that is not blocked,
\* and raises TypeError for a symbol that is not one character; else
\* take_damage(0) is called on every enemy standing on a position
animate_with_timing(stdscr, positions, symbol_length, g, w, h, roster) ==
    IF ~stdscr \/ positions = {} THEN [enemies |-> roster, raised |-> "none"]
    ELSE IF /\ symbol_length # 1
            /\ \E c \in positions : ~is_blocked(g, w, h, c[1], c[2])
    THEN [enemies |-> roster, raised |-> "TypeError"]
    ELSE [enemies |-> [i \in 1 .. Len(roster) |->
                          IF <<roster[i].x, roster[i].y>> \in positions
                          THEN take_damage(roster[i], 0, FALSE)
                          ELSE roster[i]],
          raised |-> "none"]

\* weapon.shoot(x, y, direction, game_map, enemies, stdscr): the shot, then
\* `if stdscr and positions: animate_with_timing(...)` on what the shot left,
\* then the return; a raised exception leaves no value returned
shoot_displayed(wp, x, y, shoot_direction, g, w, h, roster, now, stdscr) ==
    LET r == shoot(wp, x, y, shoot_direction, g, w, h, roster, now)
        a == IF can_shoot(wp, now)
             THEN animate_with_timing(
                      stdscr,
                      Traced(wp, x, y, DirectionVector(wp, shoot_direction),
                             g, w, h, roster),
                      SymbolLength(wp), r.grid, w, h, r.enemies)
             ELSE [enemies |-> r.enemies, raised |-> "none"]
    IN  [weapon |-> r.weapon, enemies |-> a.enemies, grid |-> r.grid,
         ret |-> r.ret /\ a.raised = "none", raised |-> a.raised]

\* current_weapon.shoot(player.x, player.y, direction, game_map, enemies,
\* stdscr), the handle being Game.stdscr or None as in the test scripts
DspShoot ==
    /\ ops < MaxShots
    /\ call.op = "shoot" => call.raised = "none"
    /\ \E shoot_direction \in ShootDirections, stdscr \in BOOLEAN :
          LET r == shoot_displayed(weapons[current_weapon], player.x, player.y,
                                   shoot_direction, grid, width, height,
                                   enemies, clock, stdscr)
          IN  /\ weapons' = [weapons EXCEPT ![current_weapon] = r.weapon]
              /\ enemies' = r.enemies
              /\ grid' = r.grid
              /\ call' = [op |-> "shoot", ret |-> r.ret, raised |-> r.raised,
                          now |-> clock, direction |-> shoot_direction,
                          stdscr |-> stdscr, before |-> Scene]
    /\ ops' = ops + 1
    /\ UNCHANGED <<player, width, height, gen_pc, start_idx, carve_stack,
                   open_areas, area_idx, rooms, attempts, combatVars,
                   current_weapon, direction, clock, items>>

\* time passes between two shots
DspTick ==
    /\ call.op = "shoot" => call.raised = "none"
    /\ WpnTick

NextDisplay ==
    \/ DspShoot
    \/ DspTick

SpecDisplay == InitWeapons /\ [][NextDisplay]_vars

\* what the recorded shot leaves when it is fired without a handle
Undisplayed ==
    shoot(Shooter, player.x, player.y, call.direction, call.before.grid,
          width, height, call.before.enemies, call.now)

\* C37: for every weapon and every state, a shot fired with a display
\* handle leaves the grid, every enemy's health and position and the ammo
\* as the same shot fired without a handle leaves them, and returns the
\* same value
C37_DisplayChangesNothing ==
    (call.op = "shoot" /\ call.stdscr) =>
        /\ grid = Undisplayed.grid
        /\ enemies = Undisplayed.enemies
        /\ weapons[current_weapon] = Undisplayed.weapon
        /\ call.raised = "none"
        /\ call.ret = Undisplayed.ret

\* the line a shotgun shot along d is said to trace at the perpendicular
\* offset o: from the cell beside the shooter, along d, out to the range or
\* to the first cell out of bounds or Wall
ParallelLine(o) ==
    CellsOf(Ray(call.before.grid, width, height,
                player.x + o * Abs(ShotVector[2]),
                player.y + o * Abs(ShotVector[1]),
                ShotVector[1], ShotVector[2], Shooter.range))

\* C38: a shotgun shot traces three parallel lines along the fire axis at
\* the perpendicular offsets -1, 0 and +1, each out to the range on its
\* own, and an enemy loses the damage once for each line that holds its cell
C38_ShotgunParallelLines ==
    (Fired /\ Shooter.name = "Shotgun") =>
        /\ ShotCells = UNION {ParallelLine(o) : o \in {-1, 0, 1}}
        /\ \A i \in 1 .. Len(enemies) :
              enemies[i].health =
                  call.before.enemies[i].health
                      - Shooter.damage
                          * Cardinality({o \in {-1, 0, 1} :
                                <<enemies[i].x, enemies[i].y>>
                                    \in ParallelLine(o)})

-----------------------------------------------------------------------------
(* Room placement to its end *)

\* the cells of the rectangle of a room: range(x1, x2) by range(y1, y2)
RoomCells(r) == Range(r[1], r[3]) \X Range(r[2], r[4])

\* C39: room placement ends within its attempt budget (the attempts made
\* never exceed it, every step of the loop is one more attempt, and while
\* generation has not returned a next step exists), any two placed rooms
\* have rectangles without a common cell, and generation completes with the
\* rooms that were placed, fewer than 5 included: the grid is returned with
\* the inside of every placed room open
C39_PlacementEnds ==
    /\ [](/\ attempts <= max_attempts
          /\ \A i, j \in 1 .. Len(rooms) :
                i # j => RoomCells(rooms[i]) \cap RoomCells(rooms[j]) = {}
          /\ gen_pc = "rooms" => ENABLED NextRooms
          /\ gen_pc = "done" =>
                /\ Len(rooms) >= 1
                /\ \A i \in 1 .. Len(rooms) :
                      \A c \in Range(rooms[i][1] + 1, rooms[i][3] - 1)
                                  \X Range(rooms[i][2] + 1, rooms[i][4] - 1) :
                          grid[c[2]][c[1]] # WALL)
    /\ [][\/ attempts' = attempts + 1 /\ gen_pc' = "rooms"
          \/ attempts' = attempts /\ gen_pc' = "done"]_vars

\* generation has returned with two rooms, fewer than the five aimed at,
\* the budget spent and one attempt dropped for an overlap
C39_Witness ==
    /\ gen_pc = "done"
    /\ Len(rooms) = 2
    /\ Len(rooms) < target_rooms
    /\ attempts = max_attempts

-----------------------------------------------------------------------------
(* SpecGenerate: generation in either mode, generate_maze() and
   generate_maze(use_rooms=True) *)

InitGenerate == InitMaze \/ InitRooms

NextGenerate ==
    \/ StartCarve
    \/ CarveStep
    \/ CarveReturn
    \/ FloodFillCollect
    \/ ConnectStep
    \/ PaintMaze
    \/ PlaceRoomAttempt
    \/ FinishRooms

SpecGenerate == InitGenerate /\ [][NextGenerate]_vars

\* the terrains of the paint pass
PaintedTerrains == {"W", "T", "R", "H", "A", "P", "L", "S"}

\* the cells of the grid
GridCells == (0 .. (width - 1)) \X (0 .. (height - 1))

\* C40: in the grid either mode returns no cell is plain Floor: every cell
\* is a Wall or one of Water, Trees, Rough, HealthPickup, AmmoPickup,
\* PowerUp, Lava, Spikes
C40_NoFloorAfterGeneration ==
    gen_pc = "done" =>
        \A c \in GridCells :
            /\ grid[c[2]][c[1]] # FLOOR
            /\ grid[c[2]][c[1]] \in PaintedTerrains \cup {WALL}

\* a returned grid that holds each of the eight terrains
C40_Witness ==
    /\ gen_pc = "done"
    /\ \A t \in PaintedTerrains : \E c \in GridCells : grid[c[2]][c[1]] = t
    /\ \A c \in GridCells : grid[c[2]][c[1]] # FLOOR

====
